---- MODULE Spec2Model ----
(***************************************************************************)
(* ios-sim-mcp: a protocol adapter that serves simulator-control requests  *)
(* by running external commands (idb, sips, simctl, osascript, cliclick).  *)
(*                                                                         *)
(* A string is a sequence of atoms.  An atom is a TLA+ string that stands  *)
(* for one character ("S", "|", " ") or for an indivisible run of          *)
(* characters that no operation of the program looks inside ("Booted",     *)
(* "Error: ").  Template strings are concatenations of such sequences.     *)
(***************************************************************************)
EXTENDS Integers, Sequences, FiniteSets, TLC

VARIABLES
    envIdbPath,   \* process.env.IDB_PATH
    existing,     \* the files fs.existsSync reports
    IDB,          \* const IDB = findIdb()
    xpc,          \* position of the executor harness
    child,        \* the child process the executor last ran
    execResult,   \* what idb(args) did with it
    variant,      \* which build serves: "idb" or "mouse"
    load,         \* what the transport delivers: "serial", "shots" or "boots"
    now,          \* Date.now()
    disk,         \* the temporary files that exist, by path
    req,          \* per handler: the request it serves
    pc,           \* per handler: idle, await, resume, done
    pend,         \* per handler: the external command it awaits
    proc,         \* per handler: the child that command ran as, once exited
    loc,          \* per handler: its locals
    log,          \* per handler: the external commands issued so far
    raised,       \* per handler: the error its catch block caught, if any
    resp          \* per handler: the response it returned

toolVars == <<envIdbPath, existing, IDB>>
execVars == <<xpc, child, execResult>>
serverVars == <<variant, load, now, disk, req, pc, pend, proc, loc, log, raised, resp>>
vars == <<envIdbPath, existing, IDB, xpc, child, execResult, variant, load, now,
          disk, req, pc, pend, proc, loc, log, raised, resp>>

----------------------------------------------------------------------------
(* Strings *)

Blank == {" ", "\n", "\t"}

RECURSIVE TrimStart(_)
TrimStart(s) ==
    IF s # <<>> /\ Head(s) \in Blank THEN TrimStart(Tail(s)) ELSE s

RECURSIVE TrimEnd(_)
TrimEnd(s) ==
    IF s # <<>> /\ s[Len(s)] \in Blank
    THEN TrimEnd(SubSeq(s, 1, Len(s) - 1))
    ELSE s

\* String.prototype.trim
Trim(s) == TrimEnd(TrimStart(s))

\* A value of the program that may be undefined, null, a string or a number.
Undefined == [t |-> "undefined", s |-> <<>>, n |-> 0]
Null == [t |-> "null", s |-> <<>>, n |-> 0]
Str(s) == [t |-> "string", s |-> s, n |-> 0]
Num(n) == [t |-> "number", s |-> <<>>, n |-> n]

\* JavaScript truthiness of such a value.
Truthy(v) ==
    CASE v.t \in {"undefined", "null"} -> FALSE
      [] v.t = "string" -> v.s # <<>>
      [] OTHER -> v.n # 0

\* `${v}` in a template string.
Interp(v) ==
    CASE v.t = "undefined" -> <<"undefined">>
      [] v.t = "null" -> <<"null">>
      [] v.t = "string" -> v.s
      [] OTHER -> <<ToString(v.n)>>

\* The outcome of a call: a returned value or a thrown Error's message.
Return(v) == [ok |-> TRUE, val |-> v, err |-> <<>>]
Throw(msg) == [ok |-> FALSE, val |-> <<>>, err |-> msg]

\* String.prototype.split(sep) for a one-character separator.
RECURSIVE SplitFrom(_, _, _)
SplitFrom(s, sep, cur) ==
    IF s = <<>> THEN <<cur>>
    ELSE IF Head(s) = sep THEN <<cur>> \o SplitFrom(Tail(s), sep, <<>>)
    ELSE SplitFrom(Tail(s), sep, Append(cur, Head(s)))

Split(s, sep) == SplitFrom(s, sep, <<>>)

Uppers == <<"A", "B", "C", "D", "E", "F", "G", "H", "I", "J", "K", "L", "M",
            "N", "O", "P", "Q", "R", "S", "T", "U", "V", "W", "X", "Y", "Z">>
Lowers == <<"a", "b", "c", "d", "e", "f", "g", "h", "i", "j", "k", "l", "m",
            "n", "o", "p", "q", "r", "s", "t", "u", "v", "w", "x", "y", "z">>

ToLowerChar(a) ==
    IF \E i \in 1..Len(Uppers) : Uppers[i] = a
    THEN Lowers[CHOOSE i \in 1..Len(Uppers) : Uppers[i] = a]
    ELSE a

ToUpperChar(a) ==
    IF \E i \in 1..Len(Lowers) : Lowers[i] = a
    THEN Uppers[CHOOSE i \in 1..Len(Lowers) : Lowers[i] = a]
    ELSE a

\* String.prototype.toLowerCase / toUpperCase
ToLowerCase(s) == [i \in 1..Len(s) |-> ToLowerChar(s[i])]
ToUpperCase(s) == [i \in 1..Len(s) |-> ToUpperChar(s[i])]

\* s.startsWith(t)
StartsWith(s, t) == Len(t) <= Len(s) /\ SubSeq(s, 1, Len(t)) = t

\* String.prototype.includes: scan s from the left for an occurrence of t.
RECURSIVE Includes(_, _)
Includes(s, t) ==
    IF StartsWith(s, t) THEN TRUE
    ELSE IF s = <<>> THEN FALSE
    ELSE Includes(Tail(s), t)

----------------------------------------------------------------------------
(* External tool locator *)

HomeIdb == <<"~", "/Library/Python/3.9/bin/idb">>
BrewIdb == <<"/opt/homebrew/bin/idb">>
LocalIdb == <<"/usr/local/bin/idb">>
CustomIdb == <<"/custom/idb">>

locations == <<HomeIdb, BrewIdb, LocalIdb>>

RECURSIVE FirstExisting(_, _)
FirstExisting(locs, ex) ==
    IF locs = <<>> THEN <<"idb">>
    ELSE IF Head(locs) \in ex THEN Head(locs)
    ELSE FirstExisting(Tail(locs), ex)

findIdb_EnvLast(env, ex) ==
    LET probed == FirstExisting(locations, ex)
    IN IF probed # <<"idb">> THEN probed
       ELSE IF Truthy(env) THEN env.s ELSE <<"idb">>

findIdb(env, ex) ==
    IF Truthy(env) THEN env.s ELSE FirstExisting(locations, ex)

----------------------------------------------------------------------------
(* Command executor *)

\* An exec that resolves whatever the exit status.
execAsync_Resolve(c) == Return(c.stdout)

\* promisify(exec): rejects when the child exits non-zero, with the message
\* "Command failed: <cmd>\n<stderr>"; resolves with {stdout, stderr} otherwise.
execAsync(c) ==
    IF c.exit # 0
    THEN Throw(<<"Command failed: ">> \o c.cmd \o <<"\n">> \o c.stderr)
    ELSE Return(c.stdout)

\* An executor without the stderr test.
idb_IgnoreStderr(c) ==
    LET r == execAsync(c)
    IN IF ~r.ok THEN r ELSE Return(Trim(c.stdout))

\* idb(args), given the child process the command line produced.
idb(c) ==
    LET r == execAsync(c)
    IN IF ~r.ok THEN r
       ELSE IF c.stderr # <<>> /\ c.stdout = <<>> THEN Throw(c.stderr)
       ELSE Return(Trim(c.stdout))

\* `${IDB} ${args}`
IdbCmd(path, args) == path \o <<" ">> \o args

----------------------------------------------------------------------------
(* Output parsers *)

\* parts[i] || ""
PartOr(parts, i) == IF i <= Len(parts) THEN parts[i] ELSE <<>>

parseLine(line) ==
    LET raw == Split(line, "|")
        parts == [i \in 1..Len(raw) |-> Trim(raw[i])]
    IN [name |-> PartOr(parts, 1), udid |-> PartOr(parts, 2),
        state |-> PartOr(parts, 3), type |-> PartOr(parts, 4),
        os_version |-> PartOr(parts, 5)]

parseListTargets(output) ==
    LET lines == SelectSeq(Split(output, "\n"), LAMBDA l : Trim(l) # <<>>)
    IN [i \in 1..Len(lines) |-> parseLine(lines[i])]

IsBooted(s) == s.state = <<"Booted">>

\* simulators.find((s) => s.state === "Booted") || null, as a sequence of
\* no record (null) or one.
findBooted_Last(sims) ==
    LET b == SelectSeq(sims, IsBooted)
    IN IF b = <<>> THEN <<>> ELSE <<b[Len(b)]>>

findBooted(sims) ==
    LET b == SelectSeq(sims, IsBooted)
    IN IF b = <<>> THEN <<>> ELSE <<Head(b)>>

ZeroFrame == [x |-> 0, y |-> 0, width |-> 0, height |-> 0]

\* A raw node of the accessibility tree as idb prints it.  An absent member
\* is Undefined (hasFrame is FALSE for an absent frame); an absent children
\* member is the empty sequence, which no operation tells from an empty array.
RECURSIVE parseElement(_)
parseElement(raw) ==
    [type |-> IF Truthy(raw.type) THEN raw.type.s
              ELSE IF Truthy(raw.role) THEN raw.role.s
              ELSE <<"Unknown">>,
     label |-> IF Truthy(raw.AXLabel) THEN raw.AXLabel ELSE Null,
     value |-> IF Truthy(raw.AXValue) THEN raw.AXValue ELSE Null,
     frame |-> IF raw.hasFrame THEN raw.frame ELSE ZeroFrame,
     enabled |-> raw.enabled,
     children |-> [i \in 1..Len(raw.children) |-> parseElement(raw.children[i])]]

KeptTypes == {<<"Button">>, <<"TextField">>, <<"StaticText">>, <<"Image">>,
              <<"Switch">>, <<"Slider">>, <<"Application">>}

\* const { children, ...rest } = el
Rest(el) == [type |-> el.type, label |-> el.label, value |-> el.value,
             frame |-> el.frame, enabled |-> el.enabled]

\* A filter that keeps labelled elements only.
Kept_LabelOnly(el) == Truthy(el.label)

Kept(el) == Truthy(el.label) \/ el.type \in KeptTypes

\* A breadth-first flattening: the nodes of one level before their children.
RECURSIVE flattenElements_LevelOrder(_)
flattenElements_LevelOrder(elements) ==
    IF elements = <<>> THEN <<>>
    ELSE LET keptHere == SelectSeq(elements, Kept)
             RECURSIVE Below(_)
             Below(es) == IF es = <<>> THEN <<>>
                          ELSE Head(es).children \o Below(Tail(es))
         IN [i \in 1..Len(keptHere) |-> Rest(keptHere[i])]
              \o flattenElements_LevelOrder(Below(elements))

RECURSIVE flattenElements(_)
flattenElements(elements) ==
    IF elements = <<>> THEN <<>>
    ELSE LET el == Head(elements)
         IN (IF Kept(el) THEN <<Rest(el)>> ELSE <<>>)
              \o flattenElements(el.children)
              \o flattenElements(Tail(elements))

\* JSON.parse of a tool's output.  The atom "{json}" stands for the
\* serialisation of the value the tool printed; anything else is not JSON.
JsonText == <<"{json}">>
JSONparse(text, value) ==
    IF Trim(text) = JsonText THEN Return(value)
    ELSE Throw(<<"Unexpected token in JSON">>)

\* el.label?.toLowerCase().includes(lowerLabel)
LabelMatches(el, lowerLabel) ==
    el.label.t = "string" /\ Includes(ToLowerCase(el.label.s), lowerLabel)

LabelMatches_CaseSensitive(el, lowerLabel) ==
    el.label.t = "string" /\ Includes(el.label.s, lowerLabel)

\* The filter of findElements; label.toLowerCase() throws on a non-string.
findElements_CaseSensitive(elements, label) ==
    IF label.t # "string"
    THEN Throw(<<"Cannot read properties of ", label.t,
                 " (reading 'toLowerCase')">>)
    ELSE Return(SelectSeq(elements, LAMBDA el : LabelMatches_CaseSensitive(el, label.s)))

findElements(elements, label) ==
    IF label.t # "string"
    THEN Throw(<<"Cannot read properties of ", label.t,
                 " (reading 'toLowerCase')">>)
    ELSE Return(SelectSeq(elements,
                    LAMBDA el : LabelMatches(el, ToLowerCase(label.s))))

\* Math.round(a + b / 2) for integers a, b: halves round up.
RoundHalf(a, b) == (2 * a + b + 1) \div 2

centerX(el) == RoundHalf(el.frame.x, el.frame.width)
centerY(el) == RoundHalf(el.frame.y, el.frame.height)

----------------------------------------------------------------------------
(* What the external tools can print *)

\* One line of `idb list-targets`.
TargetLine(name, udid, state) ==
    <<name, " ", "|", " ", udid, " ", "|", " ", state, " ", "|", " ",
      "simulator", " ", "|", " ", "iOS 17.0", " ", "|", " ", "x86_64">>

ListingNone == <<>>
ListingShutdown == TargetLine("iPhone 15", "U1", "Shutdown") \o <<"\n">>
ListingTwoBooted ==
    TargetLine("iPhone 15", "U1", "Shutdown") \o <<"\n">>
      \o TargetLine("iPad", "U2", "Booted") \o <<"\n", " ", "\n">>
      \o TargetLine("iPhone SE", "U3", "Booted")
ListingOdd ==
    <<"iPhone 15", "\n">> \o <<"Watch", "|", "U4", "|", " ", "booted", "\n">>
      \o <<"TV", " ", "|", "|", "Booted">>

\* One device booted and another on its way up.
ListingOneBooted ==
    TargetLine("iPhone 15", "U1", "Booting") \o <<"\n">>
      \o TargetLine("iPad", "U2", "Booted") \o <<"\n">>

Listings == {ListingNone, ListingShutdown, ListingTwoBooted, ListingOdd, ListingOneBooted}

Frame(x, y, w, h) == [x |-> x, y |-> y, width |-> w, height |-> h]

Node(type, label, frame, children) ==
    [type |-> type, role |-> Undefined, AXLabel |-> label, AXValue |-> Undefined,
     hasFrame |-> TRUE, frame |-> frame, enabled |-> TRUE, children |-> children]

SignIn == <<"S", "i", "g", "n", " ", "I", "n">>
SIGNUP == <<"S", "I", "G", "N", " ", "U", "P">>
Email == <<"E", "m", "a", "i", "l">>

\* An application whose first labelled element in pre-order lies deeper than
\* a later, shallower one.
TreeLogin ==
    <<Node(Str(<<"Application">>), Str(<<"A", "p", "p">>), Frame(0, 0, 390, 844),
        <<Node(Str(<<"Other">>), Undefined, Frame(0, 300, 390, 200),
            <<Node(Str(<<"Button">>), Str(SignIn), Frame(147, 400, 100, 50), <<>>)>>),
          Node(Str(<<"Button">>), Str(SIGNUP), Frame(20, 500, 101, 45), <<>>),
          Node(Str(<<"TextField">>), Str(Email), Frame(20, 200, 353, 44), <<>>)>>)>>

\* A top-level array of two roots; members missing; an empty label.
TreeBare ==
    <<[type |-> Undefined, role |-> Str(<<"AXGroup">>), AXLabel |-> Str(<<>>),
       AXValue |-> Undefined, hasFrame |-> FALSE, frame |-> ZeroFrame,
       enabled |-> FALSE,
       children |-> <<Node(Str(<<"StaticText">>), Null, Frame(1, 2, 3, 4), <<>>)>>],
      Node(Undefined, Str(<<"s", "i", "g", "n">>), Frame(10, 10, 7, 9), <<>>)>>

\* Nothing labelled, no Application element.
TreeBlank == <<Node(Str(<<"Image">>), Undefined, Frame(0, 0, 10, 10), <<>>)>>

Trees == {TreeLogin, TreeBare, TreeBlank}

SearchLabels == {Str(<<"s", "i", "g", "n">>), Str(<<"U", "P">>), Str(<<"z">>),
                 Str(<<>>), Undefined}

----------------------------------------------------------------------------
(* Requests, responses and the steps of a handler *)

NoArgs ==
    [udid |-> Undefined, bundleId |-> Undefined, x |-> Undefined, y |-> Undefined,
     startX |-> Undefined, startY |-> Undefined, endX |-> Undefined,
     endY |-> Undefined, duration |-> Undefined, text |-> Undefined,
     key |-> Undefined, button |-> Undefined, url |-> Undefined,
     label |-> Undefined]

NoRequest == [name |-> "", args |-> NoArgs]

\* A content item; json is <<v>> when text is the serialisation of v.
TextItem(t) ==
    [type |-> "text", text |-> t, json |-> <<>>, data |-> <<>>, mimeType |-> <<>>]
JsonItem(v) ==
    [type |-> "text", text |-> JsonText, json |-> <<v>>, data |-> <<>>,
     mimeType |-> <<>>]
\* The image returned as the text of a text item.
ImageItem_AsText(d) ==
    [type |-> "text", text |-> d, json |-> <<>>, data |-> <<>>, mimeType |-> <<>>]

ImageItem(d) ==
    [type |-> "image", text |-> <<>>, json |-> <<>>, data |-> d,
     mimeType |-> <<"image/png">>]

NoResponse == [content |-> <<>>, isError |-> FALSE]
Success(item) == [content |-> <<item>>, isError |-> FALSE]

\* The locals of a handler that live across an await.
NoLocals ==
    [udid |-> <<>>, tmpFile |-> <<>>, ret |-> <<>>, data |-> <<>>,
     pixelWidth |-> 0, pixelHeight |-> 0,
     bounds |-> [x |-> 0, y |-> 0, width |-> 0, height |-> 0, finite |-> TRUE]]

\* What a handler does next: suspend on an external command, return a
\* response, or throw.
Await(site, cmd, l) ==
    [k |-> "await", site |-> site, cmd |-> cmd, loc |-> l, resp |-> NoResponse,
     err |-> <<>>, rm |-> <<>>]
Finish(item) ==
    [k |-> "finish", site |-> "", cmd |-> <<>>, loc |-> NoLocals,
     resp |-> Success(item), err |-> <<>>, rm |-> <<>>]
Fail(msg) ==
    [k |-> "fail", site |-> "", cmd |-> <<>>, loc |-> NoLocals,
     resp |-> NoResponse, err |-> msg, rm |-> <<>>]

\* The same step, having deleted file f on the way (fs.unlinkSync).
Removing(f, step) == [step EXCEPT !.rm = f]

\* catch (error) { return { content: [text `Error: ${error.message}`], isError: true } }
CatchResponse_NoFlag(msg) ==
    [content |-> <<TextItem(<<"Error: ">> \o msg)>>, isError |-> FALSE]

CatchResponse(msg) ==
    [content |-> <<TextItem(<<"Error: ">> \o msg)>>, isError |-> TRUE]

base64(content) == <<"base64(">> \o content \o <<")">>

\* path.join(os.tmpdir(), `${prefix}${Date.now()}.png`)
TmpFile(prefix, t) == <<"/tmp/", prefix, ToString(t), ".png">>

ENOENT(call, f) ==
    <<"ENOENT: no such file or directory, ", call, " '">> \o f \o <<"'">>

TypeErrorOn(v, method) ==
    <<"Cannot read properties of ", v.t, " (reading '", method, "')">>

----------------------------------------------------------------------------
(* The idb-driven variant: operation functions *)

noBootedSimulatorError ==
    <<"No booted simulator found. Use list_simulators to find available simulators, then boot_simulator with a UDID.">>

UdidFlag(udid) == <<" ", "--udid", " ">> \o udid

\* The command line of idb(`${sub} ${rest} --udid ${udid}`).
IdbLine(path, words, udid) == IdbCmd(path, words \o UdidFlag(udid))

\* The characters of the names the program compares.
W_apple_pay == <<"a", "p", "p", "l", "e", "_", "p", "a", "y">>
W_home == <<"h", "o", "m", "e">>
W_lock == <<"l", "o", "c", "k">>
W_side_button == <<"s", "i", "d", "e", "_", "b", "u", "t", "t", "o", "n">>
W_siri == <<"s", "i", "r", "i">>
W_enter == <<"e", "n", "t", "e", "r">>
W_return == <<"r", "e", "t", "u", "r", "n">>
W_tab == <<"t", "a", "b">>
W_delete == <<"d", "e", "l", "e", "t", "e">>
W_backspace == <<"b", "a", "c", "k", "s", "p", "a", "c", "e">>
W_escape == <<"e", "s", "c", "a", "p", "e">>
W_space == <<"s", "p", "a", "c", "e">>
W_constructor == <<"c", "o", "n", "s", "t", "r", "u", "c", "t", "o", "r">>

validButtons == {W_apple_pay, W_home, W_lock, W_side_button, W_siri}

InvalidButton(button) ==
    <<"Invalid button '">> \o button \o
    <<"'. Valid options: home (go to home screen), lock (toggle screen lock), siri (activate Siri), apple_pay (trigger Apple Pay).">>

NoElementFound(label) ==
    <<"No element found with label containing \"">> \o label \o
    <<"\". Use describe_screen to see all available elements and their labels, or use find_elements to search with different text.">>

keyMap ==
    [k \in {W_enter, W_return, W_tab, W_delete, W_backspace, W_escape, W_space} |->
        CASE k \in {W_enter, W_return} -> 40
          [] k = W_tab -> 43
          [] k \in {W_delete, W_backspace} -> 42
          [] k = W_escape -> 41
          [] OTHER -> 44]

\* "x".charCodeAt(0) for the characters of the model's keys.
CharCode(a) ==
    IF \E i \in 1..Len(Lowers) : Lowers[i] = a
    THEN 96 + (CHOOSE i \in 1..Len(Lowers) : Lowers[i] = a)
    ELSE IF \E i \in 1..Len(Uppers) : Uppers[i] = a
    THEN 64 + (CHOOSE i \in 1..Len(Uppers) : Uppers[i] = a)
    ELSE IF a = " " THEN 32
    ELSE IF a = "1" THEN 49
    ELSE 63

\* keyMap[key] || key.charCodeAt(0), as `${keycode}` prints it.  keyMap is a
\* plain object: a name it inherits from Object.prototype is found as well.
Keycode(key) ==
    IF key \in DOMAIN keyMap THEN <<ToString(keyMap[key])>>
    ELSE IF key = W_constructor THEN <<"function Object() { [native code] }">>
    ELSE IF key = <<>> THEN <<"NaN">>
    ELSE <<ToString(CharCode(key[1]))>>

\* text.replace(/'/g, "'\\''")
RECURSIVE EscapeQuotes(_)
EscapeQuotes(s) ==
    IF s = <<>> THEN <<>>
    ELSE (IF Head(s) = "'" THEN <<"'", "\\", "'", "'">> ELSE <<Head(s)>>)
           \o EscapeQuotes(Tail(s))

\* `${n / 1000}` for an integer n: the decimal without trailing zeros.
Millis(n) ==
    LET m == IF n < 0 THEN -n ELSE n
        whole == m \div 1000
        frac == m % 1000
        digits == IF frac % 100 = 0 THEN <<ToString(frac \div 100)>>
                  ELSE IF frac % 10 = 0
                       THEN <<ToString(frac \div 100), ToString((frac \div 10) % 10)>>
                  ELSE <<ToString(frac \div 100), ToString((frac \div 10) % 10),
                         ToString(frac % 10)>>
    IN (IF n < 0 THEN <<"-">> ELSE <<>>) \o <<ToString(whole)>>
         \o (IF frac = 0 THEN <<>> ELSE <<".">> \o digits)

\* duration ? `--duration ${duration / 1000}` : ""
durationArg(duration) ==
    IF Truthy(duration) THEN <<"--duration", " ">> \o Millis(duration.n) ELSE <<>>

Digits == <<"0", "1", "2", "3", "4", "5", "6", "7", "8", "9">>
IsDigit(a) == \E i \in 1..10 : Digits[i] = a
DigitVal(a) == (CHOOSE i \in 1..10 : Digits[i] = a) - 1

\* parseInt of the run of digits that starts s.
RECURSIVE ParseDigits(_, _)
ParseDigits(s, acc) ==
    IF s # <<>> /\ IsDigit(Head(s))
    THEN ParseDigits(Tail(s), 10 * acc + DigitVal(Head(s)))
    ELSE acc

\* m = stdout.match(/<key>(\d+)/); m ? parseInt(m[1]) : dflt
MatchInt(stdout, key, dflt) ==
    LET at == {i \in 1..(Len(stdout) - 1) : stdout[i] = key /\ IsDigit(stdout[i + 1])}
    IN IF at = {} THEN dflt
       ELSE LET i == CHOOSE j \in at : \A m \in at : j <= m
            IN ParseDigits(SubSeq(stdout, i + 1, Len(stdout)), 0)

\* Math.round(a / b) for integers a >= 0, b > 0.
RoundDiv(a, b) == (2 * a + b) \div (2 * b)

\* The record getScreenSize returns; a scale that is not a finite number
\* (a division by zero) serialises as null.
ScreenSize(pixelWidth, pixelHeight, elements) ==
    LET apps == SelectSeq(elements, LAMBDA e : e.type = <<"Application">>)
        pointWidth == IF apps # <<>> /\ Head(apps).frame.width # 0
                      THEN Head(apps).frame.width
                      ELSE RoundDiv(pixelWidth, 3)
        pointHeight == IF apps # <<>> /\ Head(apps).frame.height # 0
                       THEN Head(apps).frame.height
                       ELSE RoundDiv(pixelHeight, 3)
    IN [pixels |-> [width |-> pixelWidth, height |-> pixelHeight],
        points |-> [width |-> pointWidth, height |-> pointHeight],
        scale |-> IF pointWidth = 0 THEN Null
                  ELSE Num(RoundDiv(pixelWidth, pointWidth))]

\* describeScreen's work on the output of `ui describe-all --nested`.
describeScreen(stdout, tree) ==
    LET raw == JSONparse(stdout, tree)
    IN IF ~raw.ok THEN raw
       ELSE Return(flattenElements(
                [i \in 1..Len(raw.val) |-> parseElement(raw.val[i])]))

DescribeLine(path, udid) ==
    IdbLine(path, <<"ui", " ", "describe-all", " ", "--nested">>, udid)

\* The names of the entries of the tools table, in its order.
tools ==
    {"list_simulators", "boot_simulator", "shutdown_simulator", "screenshot",
     "launch_app", "terminate_app", "tap", "swipe", "type_text", "press_key",
     "press_button", "open_url", "list_apps", "get_screen_size", "describe_screen",
     "describe_point", "find_elements", "tap_element"}

\* The case labels of the handler's switch: those that take no udid or take
\* it as given, and those that go through getUdid.
ToolsNoUdid == {"list_simulators", "boot_simulator", "shutdown_simulator"}

\* The switch without its last case.
ToolsWithUdid_NoTapElement ==
    {"screenshot", "launch_app", "terminate_app", "tap", "swipe", "type_text",
     "press_key", "press_button", "open_url", "list_apps", "get_screen_size",
     "describe_screen", "describe_point", "find_elements"}

\* A switch whose last case also takes a name that has no case.
ToolsWithUdid_NoDefault ==
    {"screenshot", "launch_app", "terminate_app", "tap", "swipe", "type_text",
     "press_key", "press_button", "open_url", "list_apps", "get_screen_size",
     "describe_screen", "describe_point", "find_elements", "tap_element",
     "no_such_tool"}

ToolsWithUdid ==
    {"screenshot", "launch_app", "terminate_app", "tap", "swipe", "type_text",
     "press_key", "press_button", "open_url", "list_apps", "get_screen_size",
     "describe_screen", "describe_point", "find_elements", "tap_element"}

\* A command whose result only decides between the confirmation and an error.
Confirm(cmd, l, text) == Await("final", cmd, [l EXCEPT !.ret = text])

\* The operation function of a tool that takes a udid, up to its first await.
OpStartIdb(path, rq, udid, t) ==
    LET a == rq.args
        l == [NoLocals EXCEPT !.udid = udid]
        n == rq.name
    IN CASE n = "screenshot" ->
              LET f == TmpFile("sim-screenshot-", t)
              IN Await("shot", IdbLine(path, <<"screenshot", " ">> \o f, udid),
                       [l EXCEPT !.tmpFile = f])
         [] n = "launch_app" ->
              Confirm(IdbLine(path, <<"launch", " ">> \o Interp(a.bundleId), udid), l,
                      <<"Launched ">> \o Interp(a.bundleId))
         [] n = "terminate_app" ->
              Confirm(IdbLine(path, <<"terminate", " ">> \o Interp(a.bundleId), udid), l,
                      <<"Terminated ">> \o Interp(a.bundleId))
         [] n = "tap" ->
              Confirm(IdbLine(path, <<"ui", " ", "tap", " ">> \o Interp(a.x) \o <<" ">>
                                      \o Interp(a.y), udid), l,
                      <<"Tapped at (">> \o Interp(a.x) \o <<", ">> \o Interp(a.y) \o <<")">>)
         [] n = "swipe" ->
              Confirm(IdbLine(path, <<"ui", " ", "swipe", " ">> \o Interp(a.startX)
                                      \o <<" ">> \o Interp(a.startY) \o <<" ">>
                                      \o Interp(a.endX) \o <<" ">> \o Interp(a.endY)
                                      \o <<" ">> \o durationArg(a.duration), udid), l,
                      <<"Swiped from (">> \o Interp(a.startX) \o <<", ">>
                        \o Interp(a.startY) \o <<") to (">> \o Interp(a.endX)
                        \o <<", ">> \o Interp(a.endY) \o <<")">>)
         [] n = "type_text" ->
              IF a.text.t # "string" THEN Fail(TypeErrorOn(a.text, "replace"))
              ELSE Confirm(IdbLine(path, <<"ui", " ", "text", " ", "'">>
                                           \o EscapeQuotes(a.text.s) \o <<"'">>, udid), l,
                           <<"Typed: ">> \o a.text.s)
         [] n = "press_key" ->
              IF a.key.t # "string" THEN Fail(TypeErrorOn(a.key, "toLowerCase"))
              ELSE LET keycode == Keycode(ToLowerCase(a.key.s))
                   IN Confirm(IdbLine(path, <<"ui", " ", "key", " ">> \o keycode, udid), l,
                              <<"Pressed key: ">> \o keycode)
         [] n = "press_button" ->
              IF a.button.t # "string" THEN Fail(TypeErrorOn(a.button, "toLowerCase"))
              ELSE IF ToLowerCase(a.button.s) \notin validButtons
              THEN Fail(InvalidButton(a.button.s))
              ELSE Confirm(IdbLine(path, <<"ui", " ", "button", " ">>
                                           \o ToUpperCase(a.button.s), udid), l,
                           <<"Pressed button: ">> \o a.button.s)
         [] n = "open_url" ->
              Confirm(IdbLine(path, <<"open", " ">> \o Interp(a.url), udid), l,
                      <<"Opened URL: ">> \o Interp(a.url))
         [] n = "list_apps" ->
              Await("text", IdbLine(path, <<"list-apps">>, udid), l)
         [] n = "describe_point" ->
              Await("text", IdbLine(path, <<"ui", " ", "describe-point", " ">>
                                            \o Interp(a.x) \o <<" ">> \o Interp(a.y), udid), l)
         [] n = "get_screen_size" ->
              LET f == TmpFile("sim-size-", t)
              IN Await("size_shot", IdbLine(path, <<"screenshot", " ">> \o f, udid),
                       [l EXCEPT !.tmpFile = f])
         [] OTHER -> Await("describe", DescribeLine(path, udid), l)

\* The switch with a getUdid that lists the targets whatever udid was given.
StartIdb_AlwaysList(path, rq, t) ==
    CASE rq.name \in {"list_simulators"} \cup ToolsWithUdid ->
           Await(IF rq.name = "list_simulators" THEN "list" ELSE "getUdid",
                 IdbCmd(path, <<"list-targets">>), NoLocals)
      [] rq.name = "boot_simulator" ->
           Confirm(IdbLine(path, <<"boot">>, Interp(rq.args.udid)), NoLocals,
                   <<"Booted simulator ">> \o Interp(rq.args.udid))
      [] rq.name = "shutdown_simulator" ->
           Confirm(IdbLine(path, <<"shutdown">>, Interp(rq.args.udid)), NoLocals,
                   <<"Shut down simulator ">> \o Interp(rq.args.udid))
      [] OTHER -> Fail(<<"Unknown tool: ", rq.name>>)

\* getUdid's fast path, and the handler's switch up to its first await.
StartIdb(path, rq, t) ==
    LET a == rq.args
    IN CASE rq.name = "list_simulators" ->
              Await("list", IdbCmd(path, <<"list-targets">>), NoLocals)
         [] rq.name = "boot_simulator" ->
              Confirm(IdbLine(path, <<"boot">>, Interp(a.udid)), NoLocals,
                      <<"Booted simulator ">> \o Interp(a.udid))
         [] rq.name = "shutdown_simulator" ->
              Confirm(IdbLine(path, <<"shutdown">>, Interp(a.udid)), NoLocals,
                      <<"Shut down simulator ">> \o Interp(a.udid))
         [] rq.name \in ToolsWithUdid ->
              IF Truthy(a.udid) THEN OpStartIdb(path, rq, Interp(a.udid), t)
              ELSE Await("getUdid", IdbCmd(path, <<"list-targets">>), NoLocals)
         [] OTHER -> Fail(<<"Unknown tool: ", rq.name>>)

\* tapElement after findElements has returned.
tapElement_Default(path, udid, label, matches) ==
    LET at == IF matches = <<>> THEN <<"0", ", ", "0">>
              ELSE <<ToString(centerX(matches[1])), ", ", ToString(centerY(matches[1]))>>
    IN Confirm(IdbLine(path, <<"ui", " ", "tap", " ", at[1], " ", at[3]>>, udid),
               [NoLocals EXCEPT !.udid = udid],
               <<"Tapped \"">> \o Interp(label) \o <<"\" at (">> \o at \o <<")">>)

tapElement(path, udid, label, matches) ==
    IF matches = <<>> THEN Fail(NoElementFound(Interp(label)))
    ELSE LET el == matches[1]
             at == <<ToString(centerX(el)), ", ", ToString(centerY(el))>>
         IN Confirm(IdbLine(path, <<"ui", " ", "tap", " ", ToString(centerX(el)), " ",
                                    ToString(centerY(el))>>, udid),
                    [NoLocals EXCEPT !.udid = udid],
                    <<"Tapped \"">> \o Interp(el.label) \o <<"\" at (">> \o at \o <<")">>)

\* fs.unlinkSync(tmpFile) and the return of takeScreenshot.
UnlinkShot_Keep(l, files) == Finish(ImageItem(l.data))

UnlinkShot(l, files) ==
    IF l.tmpFile \notin DOMAIN files THEN Fail(ENOENT("unlink", l.tmpFile))
    ELSE Removing(l.tmpFile, Finish(ImageItem(l.data)))

\* The handler's continuation when the child it awaited at `site` has exited:
\* c is the child, files the temporary files that exist, t the clock.
ResumeIdb(path, rq, l, site, c, files, t) ==
    LET out == idb(c)
    IN CASE site = "getUdid" ->
              IF ~out.ok THEN Fail(out.err)
              ELSE LET booted == findBooted(parseListTargets(out.val))
                   IN IF booted = <<>> THEN Fail(noBootedSimulatorError)
                      ELSE OpStartIdb(path, rq, booted[1].udid, t)
         [] site = "list" ->
              IF ~out.ok THEN Fail(out.err)
              ELSE Finish(JsonItem(parseListTargets(out.val)))
         [] site = "final" ->
              IF ~out.ok THEN Fail(out.err) ELSE Finish(TextItem(l.ret))
         [] site = "text" ->
              IF ~out.ok THEN Fail(out.err) ELSE Finish(TextItem(out.val))
         [] site = "shot" ->
              IF ~out.ok THEN Fail(out.err)
              ELSE IF l.tmpFile \notin DOMAIN files THEN Fail(ENOENT("open", l.tmpFile))
              ELSE UnlinkShot([l EXCEPT !.data = base64(files[l.tmpFile].content)], files)
         [] site = "size_shot" ->
              IF ~out.ok THEN Fail(out.err)
              ELSE Await("sips", <<"sips", " ", "-g", " ", "pixelWidth", " ", "-g", " ",
                                   "pixelHeight", " ", "\"">> \o l.tmpFile \o <<"\"">>, l)
         [] site = "sips" ->
              LET res == execAsync(c)
              IN IF ~res.ok THEN Fail(res.err)
                 ELSE IF l.tmpFile \notin DOMAIN files
                 THEN Fail(ENOENT("unlink", l.tmpFile))
                 ELSE Removing(l.tmpFile,
                        Await("size_describe", DescribeLine(path, l.udid),
                              [l EXCEPT !.pixelWidth = MatchInt(res.val, "pixelWidth: ", 0),
                                        !.pixelHeight = MatchInt(res.val, "pixelHeight: ", 0)]))
         [] site = "size_describe" ->
              IF ~out.ok THEN Fail(out.err)
              ELSE LET els == describeScreen(out.val, c.json)
                   IN IF ~els.ok THEN Fail(els.err)
                      ELSE Finish(JsonItem(ScreenSize(l.pixelWidth, l.pixelHeight, els.val)))
         [] OTHER ->
              IF ~out.ok THEN Fail(out.err)
              ELSE LET els == describeScreen(out.val, c.json)
                   IN IF ~els.ok THEN Fail(els.err)
                      ELSE IF rq.name = "describe_screen" THEN Finish(JsonItem(els.val))
                      ELSE LET found == findElements(els.val, rq.args.label)
                           IN IF ~found.ok THEN Fail(found.err)
                              ELSE IF rq.name = "find_elements"
                              THEN Finish(JsonItem(found.val))
                              ELSE tapElement(path, l.udid, rq.args.label, found.val)

----------------------------------------------------------------------------
(* The mouse-driven variant: operation functions *)

noBootedMouse ==
    <<"No booted simulator found. Please provide a UDID or boot a simulator.">>
noWindowBounds ==
    <<"Could not get Simulator window bounds. Is Simulator running?">>

W_volume_up == <<"v", "o", "l", "u", "m", "e", "-", "u", "p">>
W_volume_down == <<"v", "o", "l", "u", "m", "e", "-", "d", "o", "w", "n">>

buttonMap ==
    [b \in {W_home, W_lock, W_volume_up, W_volume_down} |->
        CASE b = W_home -> <<"home">>
          [] b = W_lock -> <<"lock">>
          [] b = W_volume_up -> <<"volume up">>
          [] OTHER -> <<"volume down">>]

UnknownButton(button) ==
    <<"Unknown button: ">> \o button \o
    <<". Supported: home, lock, volume-up, volume-down">>

Simctl(words) == <<"xcrun", " ", "simctl", " ">> \o words
Osascript(script) == <<"osascript", " ", "-e", " ", "'", script, "'">>

toolsMouse ==
    {"list_simulators", "boot_simulator", "shutdown_simulator", "screenshot",
     "launch_app", "terminate_app", "tap", "swipe", "type_text", "press_key",
     "press_button", "open_url", "list_apps", "get_screen_size"}
\* The case labels of the mouse variant's switch, without and with getUdid.
MouseNoUdid ==
    {"list_simulators", "boot_simulator", "shutdown_simulator", "type_text",
     "press_key"}
MouseWithUdid ==
    {"screenshot", "launch_app", "terminate_app", "tap", "swipe", "press_button",
     "open_url", "list_apps", "get_screen_size"}

\* listSimulators: the available devices of every runtime, in order.
RECURSIVE simulatorsOf(_)
simulatorsOf(runtimes) ==
    IF runtimes = <<>> THEN <<>>
    ELSE LET rt == Head(runtimes)
             avail == SelectSeq(rt.devices, LAMBDA d : d.isAvailable)
         IN [i \in 1..Len(avail) |->
                [udid |-> avail[i].udid, name |-> avail[i].name,
                 state |-> avail[i].state, runtime |-> rt.runtime]]
              \o simulatorsOf(Tail(runtimes))

\* Number(s) for the numerals osascript prints.
WindowNumbers == {0, 100, 50, 400, 828}
IsNumeral(p) == p = <<>> \/ (Len(p) = 1 /\ \E n \in WindowNumbers : ToString(n) = p[1])
NumberOf(p) == IF p = <<>> THEN 0 ELSE CHOOSE n \in WindowNumbers : ToString(n) = p[1]

\* const [x, y, w, h] = stdout.trim().split(", ").map(Number): a part that
\* is missing or is no numeral is NaN, and `finite` says none is.
parseBounds(stdout) ==
    LET parts == Split(Trim(stdout), ", ")
        at(i) == IF i <= Len(parts) /\ IsNumeral(parts[i]) THEN NumberOf(parts[i]) ELSE 0
    IN [x |-> at(1), y |-> at(2), width |-> at(3), height |-> at(4),
        finite |-> Len(parts) >= 4 /\ \A i \in 1..4 : IsNumeral(parts[i])]

titleBarHeight == 28

\* `${Math.round(origin + v * (extent / size))}`; v is the request's argument.
MapCoord(finite, origin, v, extent, size) ==
    IF v.t # "number" \/ ~finite THEN <<"NaN">>
    ELSE IF size = 0 THEN IF v.n = 0 \/ extent = 0 THEN <<"NaN">> ELSE <<"Infinity">>
    ELSE <<ToString((2 * (origin * size + v.n * extent) + size) \div (2 * size))>>

\* The horizontal mapping without the scale of the window to the screen.
screenX_Unscaled(b, sw, v) == MapCoord(b.finite, b.x, v, 1, 1)

screenX(b, sw, v) == MapCoord(b.finite, b.x, v, b.width, sw)

\* The vertical mapping over the whole window, title bar included.
screenY_NoTitleBar(b, sh, v) == MapCoord(b.finite, b.y, v, b.height, sh)

screenY(b, sh, v) ==
    MapCoord(b.finite, b.y + titleBarHeight, v, b.height - titleBarHeight, sh)

Point(x, y) == <<"(">> \o Interp(x) \o <<", ">> \o Interp(y) \o <<")">>

\* tap and swipe once the window bounds and the screen size are known.
PointerMouse(rq, l, sw, sh) ==
    LET a == rq.args
        b == l.bounds
    IN IF rq.name = "tap"
       THEN LET sx == screenX(b, sw, a.x)
                sy == screenY(b, sh, a.y)
            IN Confirm(<<"cliclick", " ", "c:">> \o sx \o <<",">> \o sy, l,
                       <<"Tapped at ">> \o Point(a.x, a.y) \o <<" -> screen (">>
                         \o sx \o <<", ">> \o sy \o <<")">>)
       ELSE Confirm(<<"cliclick", " ", "dd:">> \o screenX(b, sw, a.startX) \o <<",">>
                      \o screenY(b, sh, a.startY) \o <<" ", "du:">>
                      \o screenX(b, sw, a.endX) \o <<",">> \o screenY(b, sh, a.endY), l,
                    <<"Swiped from ">> \o Point(a.startX, a.startY) \o <<" to ">>
                      \o Point(a.endX, a.endY))

ScreenshotMouse(udid, f) ==
    Simctl(<<"io", " ">> \o udid \o <<" ", "screenshot", " ", "\"">> \o f \o <<"\"">>)

\* The operation function of a tool that takes a udid, up to its first await.
OpStartMouse(rq, udid, t) ==
    LET a == rq.args
        l == [NoLocals EXCEPT !.udid = udid]
        n == rq.name
    IN CASE n = "screenshot" ->
              LET f == TmpFile("sim-screenshot-", t)
              IN Await("shot", ScreenshotMouse(udid, f), [l EXCEPT !.tmpFile = f])
         [] n = "launch_app" ->
              Await("launch", Simctl(<<"launch", " ">> \o udid \o <<" ">>
                                       \o Interp(a.bundleId)),
                    [l EXCEPT !.ret = <<"Launched ">> \o Interp(a.bundleId)])
         [] n = "terminate_app" ->
              Confirm(Simctl(<<"terminate", " ">> \o udid \o <<" ">> \o Interp(a.bundleId)),
                      l, <<"Terminated ">> \o Interp(a.bundleId))
         [] n \in {"tap", "swipe"} ->
              Await("bounds", Osascript("position and size of front window"), l)
         [] n = "press_button" ->
              IF a.button.t # "string" THEN Fail(TypeErrorOn(a.button, "toLowerCase"))
              ELSE IF ToLowerCase(a.button.s) \notin DOMAIN buttonMap
              THEN Fail(UnknownButton(a.button.s))
              ELSE IF ToLowerCase(a.button.s) = W_home
              THEN Confirm(Osascript("click menu item Home"), l,
                           <<"Pressed button: ">> \o a.button.s)
              ELSE Await("button", Simctl(<<"ui", " ">> \o udid \o <<" ", "button", " ">>
                                            \o buttonMap[ToLowerCase(a.button.s)]),
                         [l EXCEPT !.ret = <<"Pressed button: ">> \o a.button.s])
         [] n = "open_url" ->
              Confirm(Simctl(<<"openurl", " ">> \o udid \o <<" ", "\"">> \o Interp(a.url)
                               \o <<"\"">>), l, <<"Opened URL: ">> \o Interp(a.url))
         [] n = "list_apps" ->
              Await("apps", Simctl(<<"listapps", " ">> \o udid), l)
         [] OTHER ->
              LET f == TmpFile("sim-size-", t)
              IN Await("size_shot", ScreenshotMouse(udid, f), [l EXCEPT !.tmpFile = f])

\* text.replace(/"/g, '\\"')
RECURSIVE EscapeDoubleQuotes(_)
EscapeDoubleQuotes(s) ==
    IF s = <<>> THEN <<>>
    ELSE (IF Head(s) = "\"" THEN <<"\\", "\"">> ELSE <<Head(s)>>)
           \o EscapeDoubleQuotes(Tail(s))

\* pressKey's choice of an AppleScript statement.
keystrokeOf(key) ==
    LET k == ToLowerCase(key)
    IN CASE k \in {W_enter, W_return} -> <<"key code 36">>
         [] k \in {W_delete, W_backspace} -> <<"key code 51">>
         [] k = W_escape -> <<"key code 53">>
         [] k = W_tab -> <<"key code 48">>
         [] OTHER -> <<"keystroke \"">> \o key \o <<"\"">>

StartMouse(rq, t) ==
    LET a == rq.args
    IN CASE rq.name = "list_simulators" ->
              Await("list", Simctl(<<"list", " ", "devices", " ", "-j">>), NoLocals)
         [] rq.name = "boot_simulator" ->
              Await("boot", Simctl(<<"boot", " ">> \o Interp(a.udid)),
                    [NoLocals EXCEPT !.ret = <<"Booted simulator ">> \o Interp(a.udid)])
         [] rq.name = "shutdown_simulator" ->
              Confirm(Simctl(<<"shutdown", " ">> \o Interp(a.udid)), NoLocals,
                      <<"Shut down simulator ">> \o Interp(a.udid))
         [] rq.name = "type_text" ->
              IF a.text.t # "string" THEN Fail(TypeErrorOn(a.text, "replace"))
              ELSE Await("pbcopy", <<"echo", " ", "-n", " ", "\"">>
                                     \o EscapeDoubleQuotes(a.text.s)
                                     \o <<"\"", " ", "|", " ", "pbcopy">>,
                         [NoLocals EXCEPT !.ret = <<"Typed: ">> \o a.text.s])
         [] rq.name = "press_key" ->
              IF a.key.t # "string" THEN Fail(TypeErrorOn(a.key, "toLowerCase"))
              ELSE Confirm(<<"osascript", " ", "-e", " ", "'">> \o keystrokeOf(a.key.s)
                             \o <<"'">>, NoLocals, <<"Pressed key: ">> \o a.key.s)
         [] rq.name \in MouseWithUdid ->
              IF Truthy(a.udid) THEN OpStartMouse(rq, Interp(a.udid), t)
              ELSE Await("getUdid", Simctl(<<"list", " ", "devices", " ", "-j">>), NoLocals)
         [] OTHER -> Fail(<<"Unknown tool: ", rq.name>>)

\* bootSimulator's catch block.
bootCatch(err) ==
    IF Includes(err, <<"current state: Booted">>)
    THEN Finish(TextItem(<<"Simulator already booted">>))
    ELSE Fail(err)

\* The capture groups of /CFBundleIdentifier = "([^"]+)"/g.
RECURSIVE bundleIds(_)
bundleIds(s) ==
    IF Len(s) < 3 THEN <<>>
    ELSE IF s[1] = "CFBundleIdentifier = \"" /\ s[2] # "\"" /\ s[3] = "\""
    THEN <<s[2]>> \o bundleIds(SubSeq(s, 4, Len(s)))
    ELSE bundleIds(Tail(s))

ResumeMouse(rq, l, site, c, files, t) ==
    LET out == execAsync(c)
    IN CASE site = "getUdid" ->
              IF ~out.ok THEN Fail(out.err)
              ELSE LET data == JSONparse(out.val, c.json)
                   IN IF ~data.ok THEN Fail(data.err)
                      ELSE LET booted == findBooted(simulatorsOf(data.val))
                           IN IF booted = <<>> THEN Fail(noBootedMouse)
                              ELSE OpStartMouse(rq, booted[1].udid, t)
         [] site = "list" ->
              IF ~out.ok THEN Fail(out.err)
              ELSE LET data == JSONparse(out.val, c.json)
                   IN IF ~data.ok THEN Fail(data.err)
                      ELSE Finish(JsonItem(simulatorsOf(data.val)))
         [] site = "boot" ->
              IF ~out.ok THEN bootCatch(out.err)
              ELSE Await("boot2", <<"open", " ", "-a", " ", "Simulator">>, l)
         [] site = "boot2" ->
              IF ~out.ok THEN bootCatch(out.err) ELSE Finish(TextItem(l.ret))
         [] site = "final" ->
              IF ~out.ok THEN Fail(out.err) ELSE Finish(TextItem(l.ret))
         [] site = "launch" ->
              IF ~out.ok THEN Fail(out.err)
              ELSE Finish(TextItem(IF Trim(out.val) # <<>> THEN Trim(out.val) ELSE l.ret))
         [] site = "button" -> Finish(TextItem(l.ret))
         [] site = "pbcopy" ->
              IF ~out.ok THEN Fail(out.err)
              ELSE Confirm(Osascript("keystroke v using command down"), l, l.ret)
         [] site = "apps" ->
              IF ~out.ok THEN Fail(out.err) ELSE Finish(JsonItem(bundleIds(out.val)))
         [] site = "shot" ->
              IF ~out.ok THEN Fail(out.err)
              ELSE IF l.tmpFile \notin DOMAIN files THEN Fail(ENOENT("open", l.tmpFile))
              ELSE UnlinkShot([l EXCEPT !.data = base64(files[l.tmpFile].content)], files)
         [] site = "bounds" ->
              IF ~out.ok THEN Fail(noWindowBounds)
              ELSE LET f == TmpFile("sim-size-", t)
                   IN Await("size_shot", ScreenshotMouse(l.udid, f),
                            [l EXCEPT !.tmpFile = f, !.bounds = parseBounds(out.val)])
         [] site = "size_shot" ->
              IF ~out.ok THEN Fail(out.err)
              ELSE Await("sips", <<"sips", " ", "-g", " ", "pixelWidth", " ", "-g", " ",
                                   "pixelHeight", " ", "\"">> \o l.tmpFile \o <<"\"">>, l)
         [] OTHER ->
              IF ~out.ok THEN Fail(out.err)
              ELSE IF l.tmpFile \notin DOMAIN files
              THEN Fail(ENOENT("unlink", l.tmpFile))
              ELSE LET w == MatchInt(out.val, "pixelWidth: ", 390)
                       h == MatchInt(out.val, "pixelHeight: ", 844)
                   IN Removing(l.tmpFile,
                        IF rq.name = "get_screen_size"
                        THEN Finish(JsonItem([width |-> w, height |-> h]))
                        ELSE PointerMouse(rq, l, w, h))

----------------------------------------------------------------------------
(* The children of the external commands *)

NoChild == [cmd |-> <<>>, exit |-> 0, stdout |-> <<>>, stderr |-> <<>>, json |-> <<>>]

Exited(cmd, exit, stdout, stderr) ==
    [cmd |-> cmd, exit |-> exit, stdout |-> stdout, stderr |-> stderr, json |-> <<>>]

\* A child that printed the serialisation of v.
Printed(cmd, v) ==
    [cmd |-> cmd, exit |-> 0, stdout |-> <<" ">> \o JsonText \o <<"\n">>,
     stderr |-> <<>>, json |-> v]

Device(udid, name, state, avail) ==
    [udid |-> udid, name |-> name, state |-> state, isAvailable |-> avail]

SimctlLists ==
    {<<>>,
     <<[runtime |-> <<"iOS-17-0">>,
        devices |-> <<Device(<<"M1">>, <<"iPhone 15">>, <<"Shutdown">>, TRUE),
                      Device(<<"M2">>, <<"iPad">>, <<"Booted">>, FALSE)>>],
       [runtime |-> <<"iOS-16-4">>,
        devices |-> <<Device(<<"M3">>, <<"iPhone SE">>, <<"Booted">>, TRUE)>>]>>}

SipsGood ==
    <<"/tmp/shot.png", "\n", " ", "pixelWidth: ", "1", "1", "7", "0", "\n", " ",
      "pixelHeight: ", "2", "5", "3", "2", "\n">>
SipsOutputs == {SipsGood, <<"Error: not an image">>}

\* The ways a command can end badly: a non-zero exit, and a zero exit that
\* wrote to stderr alone.
Failures(cmd) ==
    {Exited(cmd, 1, <<"partial">>, <<"boom">>), Exited(cmd, 0, <<>>, <<"warning">>)}

\* The children an external command issued at `site` can turn out to be.
Children(v, site, cmd, exists) ==
    LET good ==
          CASE site \in {"getUdid", "list"} ->
                 IF v = "idb" THEN {Exited(cmd, 0, o, <<>>) : o \in Listings}
                 ELSE {Printed(cmd, d) : d \in SimctlLists}
            [] site \in {"describe", "size_describe"} ->
                 {Printed(cmd, tr) : tr \in Trees} \cup {Exited(cmd, 0, <<"garbage">>, <<>>)}
            [] site = "sips" ->
                 IF exists THEN {Exited(cmd, 0, o, <<>>) : o \in SipsOutputs} ELSE {}
            [] site = "text" ->
                 {Exited(cmd, 0, <<" ", "com.app.one", "\n">>, <<>>)}
            [] site = "launch" ->
                 {Exited(cmd, 0, <<"com.app.one: 123", "\n">>, <<>>),
                  Exited(cmd, 0, <<>>, <<>>)}
            [] site = "apps" ->
                 {Exited(cmd, 0, <<"CFBundleIdentifier = \"", "com.app.one", "\"", "\n",
                                   "CFBundleIdentifier = \"", "com.app.two", "\"">>, <<>>)}
            [] site = "bounds" ->
                 {Exited(cmd, 0, <<"100", ", ", "50", ", ", "400", ", ", "828", "\n">>, <<>>)}
            [] site = "boot" ->
                 {Exited(cmd, 0, <<>>, <<>>),
                  Exited(cmd, 1, <<>>, <<"Unable to boot device in ", "current state: Booted">>)}
            [] OTHER -> {Exited(cmd, 0, <<>>, <<>>)}
    IN good \cup Failures(cmd)

\* What the screenshot command run for handler r captures.
Capture(r) == <<"png of ", ToString(r)>>

\* A screenshot command that exits with status 0 has written its file.
Writes(site, c) == site \in {"shot", "size_shot"} /\ c.exit = 0

----------------------------------------------------------------------------
(* The requests a client sends *)

MaxInflight == 2
MaxNow == 1

Handlers == 1..MaxInflight

Udids == {Undefined, Str(<<>>), Str(<<"U9">>)}

WithUdid(a) == {[a EXCEPT !.udid = u] : u \in Udids}

ArgsOf(name) ==
    CASE name = "list_simulators" -> {NoArgs}
      [] name \in {"boot_simulator", "shutdown_simulator"} ->
           {NoArgs, [NoArgs EXCEPT !.udid = Str(<<"U9">>)]}
      [] name \in {"launch_app", "terminate_app"} ->
           UNION {WithUdid([NoArgs EXCEPT !.bundleId = b]) :
                    b \in {Str(<<"com.app.one">>), Undefined}}
      [] name \in {"tap", "describe_point"} ->
           UNION {WithUdid([NoArgs EXCEPT !.x = p[1], !.y = p[2]]) :
                    p \in {<<Num(200), Num(400)>>, <<Num(0), Num(0)>>,
                           <<Num(1170), Num(2532)>>, <<Undefined, Undefined>>}}
      [] name = "swipe" ->
           UNION {WithUdid([NoArgs EXCEPT !.startX = Num(200), !.startY = Num(600),
                                          !.endX = Num(200), !.endY = Num(200),
                                          !.duration = d]) :
                    d \in {Undefined, Num(0), Num(300), Num(1500)}}
      [] name = "type_text" ->
           UNION {WithUdid([NoArgs EXCEPT !.text = x]) :
                    x \in {Str(<<"h", "i">>), Str(<<"i", "t", "'", "s">>),
                           Str(<<"a", "\"", "b">>), Str(<<"$", "HOME">>), Undefined}}
      [] name = "press_key" ->
           UNION {WithUdid([NoArgs EXCEPT !.key = x]) :
                    x \in {Str(<<"E", "n", "t", "e", "r">>), Str(W_space),
                           Str(<<"A">>), Str(<<>>), Str(W_constructor), Undefined}}
      [] name = "press_button" ->
           UNION {WithUdid([NoArgs EXCEPT !.button = x]) :
                    x \in {Str(<<"H", "o", "m", "e">>), Str(W_lock), Str(W_side_button),
                           Str(W_volume_up), Str(<<"x">>), Undefined}}
      [] name = "open_url" ->
           UNION {WithUdid([NoArgs EXCEPT !.url = x]) :
                    x \in {Str(<<"myapp://profile">>),
                           Str(<<"http://a/?x=1", "&", "y=2", ";", " ", "reboot">>),
                           Undefined}}
      [] name \in {"find_elements", "tap_element"} ->
           UNION {WithUdid([NoArgs EXCEPT !.label = x]) : x \in SearchLabels}
      [] OTHER -> WithUdid(NoArgs)

ToolNames == tools \cup {"no_such_tool"}

Requests(ld) ==
    IF ld = "shots"
    THEN {[name |-> n, args |-> [NoArgs EXCEPT !.udid = Str(<<"U9">>)]] :
            n \in {"screenshot", "get_screen_size"}}
    ELSE IF ld = "boots"
    THEN {[name |-> "boot_simulator", args |-> [NoArgs EXCEPT !.udid = Str(<<"U9">>)]]}
    ELSE UNION {{[name |-> n, args |-> a] : a \in ArgsOf(n)} : n \in ToolNames}

----------------------------------------------------------------------------
(* The server *)

NoPending == [site |-> "", cmd |-> <<>>]

ServerIdle(v, ld) ==
    /\ variant = v
    /\ load = ld
    /\ now = 0
    /\ disk = <<>>
    /\ req = [r \in Handlers |-> NoRequest]
    /\ pc = [r \in Handlers |-> "idle"]
    /\ pend = [r \in Handlers |-> NoPending]
    /\ proc = [r \in Handlers |-> NoChild]
    /\ loc = [r \in Handlers |-> NoLocals]
    /\ log = [r \in Handlers |-> <<>>]
    /\ raised = [r \in Handlers |-> <<>>]
    /\ resp = [r \in Handlers |-> NoResponse]

\* The state after construction: IDB resolved, no request in flight.
ToolsLoaded ==
    /\ envIdbPath = Undefined
    /\ existing = {BrewIdb}
    /\ IDB = findIdb(envIdbPath, existing)
    /\ xpc = "ready"
    /\ child = NoChild
    /\ execResult = Return(<<>>)

Init == ToolsLoaded /\ \E v \in {"idb", "mouse"} : ServerIdle(v, "serial")

InitShots == ToolsLoaded /\ \E v \in {"idb", "mouse"} : ServerIdle(v, "shots")

InitBoots == ToolsLoaded /\ \E v \in {"idb", "mouse"} : ServerIdle(v, "boots")

Without(fs, f) == [p \in (DOMAIN fs) \ {f} |-> fs[p]]
With(fs, f, file) == [p \in (DOMAIN fs) \cup {f} |-> IF p = f THEN file ELSE fs[p]]

Inflight == {r \in Handlers : pc[r] # "idle"}

\* The handler takes the step: it suspends, goes on, returns or throws (and
\* its catch block turns the error into the response).
Take(r, step) ==
    /\ disk' = IF step.rm # <<>> THEN Without(disk, step.rm) ELSE disk
    /\ CASE step.k = "await" ->
              /\ pc' = [pc EXCEPT ![r] = "await"]
              /\ pend' = [pend EXCEPT ![r] = [site |-> step.site, cmd |-> step.cmd]]
              /\ loc' = [loc EXCEPT ![r] = step.loc]
              /\ log' = [log EXCEPT ![r] = Append(@, [site |-> step.site, cmd |-> step.cmd,
                                                     child |-> <<>>])]
              /\ UNCHANGED <<raised, resp>>
         [] step.k = "finish" ->
              /\ pc' = [pc EXCEPT ![r] = "done"]
              /\ resp' = [resp EXCEPT ![r] = step.resp]
              /\ pend' = [pend EXCEPT ![r] = NoPending]
              /\ UNCHANGED <<loc, log, raised>>
         [] OTHER ->
              /\ pc' = [pc EXCEPT ![r] = "done"]
              /\ raised' = [raised EXCEPT ![r] = <<step.err>>]
              /\ resp' = [resp EXCEPT ![r] = CatchResponse(step.err)]
              /\ pend' = [pend EXCEPT ![r] = NoPending]
              /\ UNCHANGED <<loc, log>>

Start(v, rq, t) == IF v = "idb" THEN StartIdb(IDB, rq, t) ELSE StartMouse(rq, t)

\* A handler that keeps the device list of an earlier request: once the clock
\* has advanced, list-targets is answered from the list it kept.
Resume_Cached(v, rq, l, site, c, fs, t) ==
    IF v = "idb"
    THEN ResumeIdb(IDB, rq, l, site,
                   IF site \in {"getUdid", "list"} /\ t > 0 /\ c.exit = 0
                   THEN [c EXCEPT !.stdout = ListingShutdown] ELSE c,
                   fs, t)
    ELSE ResumeMouse(rq, l, site, c, fs, t)

\* A handler that runs the operation again from its start when its last
\* command has failed.
Resume_Retry(v, rq, l, site, c, fs, t) ==
    IF c.exit # 0 /\ site = "final" THEN Start(v, rq, t)
    ELSE IF v = "idb" THEN ResumeIdb(IDB, rq, l, site, c, fs, t)
    ELSE ResumeMouse(rq, l, site, c, fs, t)

Resume(v, rq, l, site, c, fs, t) ==
    IF v = "idb" THEN ResumeIdb(IDB, rq, l, site, c, fs, t)
    ELSE ResumeMouse(rq, l, site, c, fs, t)

\* Date.now() advances.
Tick ==
    /\ now < MaxNow
    /\ now' = now + 1
    /\ UNCHANGED <<toolVars, execVars, variant, load, disk, req, pc, pend, proc, loc,
                   log, raised, resp>>

\* The transport delivers a request and its handler runs to its first await.
Receive(r) ==
    /\ pc[r] = "idle"
    /\ \A q \in Handlers : q < r => pc[q] # "idle"
    /\ load = "serial" => Inflight = {}
    /\ \E rq \in Requests(load) :
         /\ req' = [req EXCEPT ![r] = rq]
         /\ Take(r, Start(variant, rq, now))
    /\ UNCHANGED <<toolVars, execVars, variant, load, now, proc>>

\* The child of the awaited command exits, having written what it writes.
ChildExit(r) ==
    /\ pc[r] = "await"
    /\ \E c \in Children(variant, pend[r].site, pend[r].cmd, loc[r].tmpFile \in DOMAIN disk) :
         /\ proc' = [proc EXCEPT ![r] = c]
         /\ log' = [log EXCEPT ![r][Len(log[r])].child = <<c>>]
         /\ disk' = IF Writes(pend[r].site, c)
                     THEN With(disk, loc[r].tmpFile, [content |-> Capture(r)])
                     ELSE disk
    /\ pc' = [pc EXCEPT ![r] = "resume"]
    /\ UNCHANGED <<toolVars, execVars, variant, load, now, req, pend, loc, raised, resp>>

\* A handler that awaits its command again when the command has failed.
Continue_Again(r) ==
    /\ pc[r] = "resume"
    /\ IF proc[r].exit # 0
       THEN /\ pc' = [pc EXCEPT ![r] = "await"]
            /\ UNCHANGED <<disk, pend, loc, log, raised, resp>>
       ELSE Take(r, Resume(variant, req[r], loc[r], pend[r].site, proc[r], disk, now))
    /\ UNCHANGED <<toolVars, execVars, variant, load, now, req, proc>>

\* The handler resumes after its await and runs to its next one.
Continue(r) ==
    /\ pc[r] = "resume"
    /\ Take(r, Resume(variant, req[r], loc[r], pend[r].site, proc[r], disk, now))
    /\ UNCHANGED <<toolVars, execVars, variant, load, now, req, proc>>

\* The response is delivered; the handler and all it held are gone.
Respond(r) ==
    /\ pc[r] = "done"
    /\ pc' = [pc EXCEPT ![r] = "idle"]
    /\ req' = [req EXCEPT ![r] = NoRequest]
    /\ pend' = [pend EXCEPT ![r] = NoPending]
    /\ proc' = [proc EXCEPT ![r] = NoChild]
    /\ loc' = [loc EXCEPT ![r] = NoLocals]
    /\ log' = [log EXCEPT ![r] = <<>>]
    /\ raised' = [raised EXCEPT ![r] = <<>>]
    /\ resp' = [resp EXCEPT ![r] = NoResponse]
    /\ UNCHANGED <<toolVars, execVars, variant, load, now, disk>>

Next ==
    \/ Tick
    \/ \E r \in Handlers : Receive(r)
    \/ \E r \in Handlers : ChildExit(r)
    \/ \E r \in Handlers : Continue(r)
    \/ \E r \in Handlers : Respond(r)

Spec == Init /\ [][Next]_vars

\* Concurrent screenshot and get_screen_size requests.
SpecShots == InitShots /\ [][Next]_vars

\* The step Continue(r) by what it does to pc: a handler that was to resume
\* awaits again or is done.  No other step of Next takes pc[r] off "resume".
Continued(r) ==
    /\ pc[r] = "resume"
    /\ pc' \in {[pc EXCEPT ![r] = k] : k \in {"await", "done"}}

\* Concurrent boot_simulator requests.  The event loop
\* runs every continuation that is ready and delivers every response that is
\* ready; nothing makes a child process exit.
SpecBoots ==
    /\ InitBoots
    /\ [][Next]_vars
    /\ \A r \in Handlers : WF_pc(Continued(r)) /\ WF_vars(Respond(r))

----------------------------------------------------------------------------
(* The locator and the executor on their own: every environment, every     *)
(* child process.                                                          *)

EnvValues == {Undefined, Str(<<>>), Str(CustomIdb)}
ProbePaths == {HomeIdb, BrewIdb, LocalIdb, CustomIdb}
ExitCodes == {0, 1}
Stdouts == {<<>>, <<" ">>, <<"out">>, <<" ", "out", "\n">>}
Stderrs == {<<>>, <<"err">>}
ExecArgs == {<<"list-targets">>, <<"ui tap 1 2">>}

InitExec ==
    /\ envIdbPath \in EnvValues
    /\ existing \in SUBSET ProbePaths
    /\ IDB = <<>>
    /\ xpc = "load"
    /\ child = NoChild
    /\ execResult = Return(<<>>)
    /\ ServerIdle("idb", "serial")

\* Module load: const IDB = findIdb()
LoadIdb ==
    /\ xpc = "load"
    /\ IDB' = findIdb(envIdbPath, existing)
    /\ xpc' = "ready"
    /\ UNCHANGED <<envIdbPath, existing, child, execResult, serverVars>>

\* One call of idb(args): the child runs to its end and idb returns or throws.
CallIdb ==
    /\ xpc = "ready"
    /\ \E args \in ExecArgs, e \in ExitCodes, so \in Stdouts, se \in Stderrs :
         LET c == [cmd |-> IdbCmd(IDB, args), exit |-> e, stdout |-> so,
                   stderr |-> se, json |-> <<>>]
         IN /\ child' = c
            /\ execResult' = idb(c)
    /\ xpc' = "called"
    /\ UNCHANGED <<toolVars, serverVars>>

\* The caller takes the result; the executor is ready for the next call.
TakeResult ==
    /\ xpc = "called"
    /\ xpc' = "ready"
    /\ child' = NoChild
    /\ execResult' = Return(<<>>)
    /\ UNCHANGED <<toolVars, serverVars>>

NextExec == LoadIdb \/ CallIdb \/ TakeResult

SpecExec == InitExec /\ [][NextExec]_vars

----------------------------------------------------------------------------
(* What the claims speak of *)

Done(r) == pc[r] = "done"

\* The text of the single item of r's response.
TextOf(r) == resp[r].content[1].text

\* The external commands r has issued whose child has exited.
Exits(r) == {i \in 1..Len(log[r]) : log[r][i].child # <<>>}
ChildOf(r, i) == log[r][i].child[1]

\* The child failed: it exited with a non-zero status.
Failed(c) == c.exit # 0

\* r issued a command at `site` and its child printed a tree the program parsed.
Described(r) ==
    {i \in Exits(r) : /\ log[r][i].site = "describe"
                      /\ ChildOf(r, i).exit = 0
                      /\ Trim(ChildOf(r, i).stdout) = JsonText}

\* The positions of a tree: the path of child indexes from a root.
RECURSIVE PathsOf(_)
PathsOf(elements) ==
    UNION {{<<i>>} \cup {<<i>> \o p : p \in PathsOf(elements[i].children)} :
             i \in 1..Len(elements)}

RECURSIVE NodeAt(_, _)
NodeAt(elements, p) ==
    IF Len(p) = 1 THEN elements[p[1]]
    ELSE NodeAt(elements[p[1]].children, Tail(p))

\* p comes before q in a pre-order traversal: a node before its descendants,
\* an earlier sibling's subtree before a later sibling's.
Precedes(p, q) ==
    \/ Len(p) < Len(q) /\ SubSeq(q, 1, Len(p)) = p
    \/ \E i \in 1..Len(p) :
         /\ i <= Len(q)
         /\ SubSeq(p, 1, i - 1) = SubSeq(q, 1, i - 1)
         /\ p[i] < q[i]

\* Two characters that differ at most in case.
SameLetter(a, b) ==
    \/ a = b
    \/ \E i \in 1..Len(Uppers) : {a, b} = {Uppers[i], Lowers[i]}

\* text contains part somewhere, case apart.
ContainsCI(text, part) ==
    \E off \in 0..(Len(text) - Len(part)) :
        \A k \in 1..Len(part) : SameLetter(text[off + k], part[k])

\* The positions of the tree whose node carries a label containing `part`.
MatchingPaths(tree, part) ==
    {p \in PathsOf(tree) :
        LET n == NodeAt(tree, p)
        IN n.AXLabel.t = "string" /\ n.AXLabel.s # <<>> /\ ContainsCI(n.AXLabel.s, part)}

\* The tap invocations of r.
Taps(r) == {i \in 1..Len(log[r]) : Includes(log[r][i].cmd, <<"ui", " ", "tap">>)}

\* The tools that resolve the device themselves.
NeedsUdid(v) == IF v = "idb" THEN ToolsWithUdid ELSE toolsMouse \ MouseNoUdid
NoBooted(v) == IF v = "idb" THEN noBootedSimulatorError ELSE noBootedMouse
ListingLine(v) ==
    IF v = "idb" THEN IdbCmd(IDB, <<"list-targets">>)
    ELSE Simctl(<<"list", " ", "devices", " ", "-j">>)

\* The response is the error response for message msg: flagged, one text item.
IsErrorWith(rs, msg) ==
    /\ rs.isError = TRUE
    /\ Len(rs.content) = 1
    /\ rs.content[1].type = "text"
    /\ rs.content[1].text = <<"Error: ">> \o msg

----------------------------------------------------------------------------
(* C1 *)

\* C1: whatever the request, every failure raised while serving it ends in a
\* response with the error flag set whose single text item is "Error: "
\* followed by the failure's message, and a handler that has finished has
\* always returned a response: no failure leaves the dispatcher.
C1_ErrorsCaught ==
    \A r \in Handlers :
        /\ raised[r] # <<>> => Done(r) /\ IsErrorWith(resp[r], raised[r][1])
        /\ Done(r) => Len(resp[r].content) = 1
        /\ (Done(r) /\ resp[r].isError) => raised[r] # <<>>

\* A wrongly typed argument raised a TypeError and an unknown operation name
\* was refused; here the former.
C1_Witness ==
    \E r \in Handlers :
        /\ Done(r)
        /\ req[r].name = "press_key"
        /\ req[r].args.key = Undefined
        /\ raised[r] = <<TypeErrorOn(Undefined, "toLowerCase")>>
        /\ resp[r].isError

----------------------------------------------------------------------------
(* C2 *)

\* The listing r asked for came back and the program could read it.
ListingOk(v, c) ==
    IF v = "idb" THEN idb(c).ok ELSE c.exit = 0 /\ Trim(c.stdout) = JsonText

Listed(v, c) ==
    IF v = "idb" THEN parseListTargets(idb(c).val) ELSE simulatorsOf(c.json)

\* For the operations `names`: with no identifier the first command is the
\* device listing; if it reports no Booted record the request fails with the
\* no-booted message and nothing else is issued; otherwise the operation runs
\* against the first Booted record.  With an identifier no listing is asked
\* for and the operation runs against the identifier given.
ResolvesDevice(names) ==
    \A r \in Handlers :
        (req[r].name \in names /\ log[r] # <<>>) =>
            IF Truthy(req[r].args.udid)
            THEN /\ log[r][1].cmd # ListingLine(variant)
                 /\ loc[r].udid = req[r].args.udid.s
            ELSE /\ log[r][1].cmd = ListingLine(variant)
                 /\ (1 \in Exits(r) /\ ListingOk(variant, ChildOf(r, 1))) =>
                      LET recs == Listed(variant, ChildOf(r, 1))
                          booted == {i \in 1..Len(recs) : recs[i].state = <<"Booted">>}
                      IN IF booted = {}
                         THEN /\ Len(log[r]) = 1
                              /\ Done(r) => IsErrorWith(resp[r], NoBooted(variant))
                         ELSE LET first == CHOOSE i \in booted : \A j \in booted : i <= j
                              IN Len(log[r]) >= 2 =>
                                   /\ loc[r].udid = recs[first].udid
                                   /\ variant = "idb" =>
                                        Includes(log[r][2].cmd,
                                                 <<"--udid", " ">> \o recs[first].udid)

\* C2 (as stated): every operation resolves an absent device identifier to
\* the first Booted record of the listing and fails with the no-booted
\* message, issuing no command of its own, when no record is Booted.
C2_Original == ResolvesDevice(IF variant = "idb" THEN tools ELSE toolsMouse)

\* C2 (amended): every operation that acts on a device other than
\* boot_simulator and shutdown_simulator (list_simulators takes no identifier;
\* in the mouse-driven variant type_text and press_key take none either)
\* resolves an absent or empty identifier to the first Booted record of a
\* successful listing, and fails with the no-booted message, issuing no
\* command of its own, when the listing has no Booted record.
C2_Amended == ResolvesDevice(NeedsUdid(variant))

\* A tap without identifier went to U2, the first of two Booted devices.
C2_Witness ==
    \E r \in Handlers :
        /\ variant = "idb"
        /\ req[r].name = "tap"
        /\ req[r].args.udid = Undefined
        /\ Len(log[r]) = 2
        /\ ChildOf(r, 1).stdout = ListingTwoBooted
        /\ Includes(log[r][2].cmd, <<"--udid", " ", "U2">>)

----------------------------------------------------------------------------
(* C3 *)

\* C3: a tap_element whose label is contained in no label of the snapshot
\* ends in an error response whose text contains the label, and issues no tap.
C3_NoMatchNoTap ==
    \A r \in Handlers :
        \A i \in Described(r) :
            (/\ req[r].name = "tap_element"
             /\ req[r].args.label.t = "string"
             /\ pc[r] # "resume"
             /\ MatchingPaths(ChildOf(r, i).json, req[r].args.label.s) = {}) =>
                /\ Done(r)
                /\ resp[r].isError
                /\ Includes(TextOf(r), req[r].args.label.s)
                /\ Taps(r) = {}

\* The label z, searched for on the login screen, was not found.
C3_Witness ==
    \E r \in Handlers :
        /\ Done(r)
        /\ req[r].name = "tap_element"
        /\ req[r].args.label = Str(<<"z">>)
        /\ \E i \in Described(r) : ChildOf(r, i).json = TreeLogin
        /\ resp[r].isError

----------------------------------------------------------------------------
(* C4 *)

\* The elements of the flattened snapshot the child at i printed.
Flattened(r, i) ==
    LET tree == ChildOf(r, i).json
    IN flattenElements([k \in 1..Len(tree) |-> parseElement(tree[k])])

\* C4: find_elements returns exactly the elements of the flattened snapshot
\* whose label contains the search string, case apart, in the snapshot's
\* order; an element without a label is never returned.
C4_SubstringFilter ==
    \A r \in Handlers :
        \A i \in Described(r) :
            (/\ req[r].name = "find_elements"
             /\ req[r].args.label.t = "string"
             /\ Done(r)) =>
                LET flat == Flattened(r, i)
                    hit(el) == /\ el.label.t = "string"
                               /\ ContainsCI(el.label.s, req[r].args.label.s)
                    found == resp[r].content[1].json[1]
                IN /\ ~resp[r].isError
                   /\ found = SelectSeq(flat, hit)
                   /\ \A k \in 1..Len(found) : found[k].label.t = "string"

\* Searching sign on the login screen returned Sign In and SIGN UP, in order.
C4_Witness ==
    \E r \in Handlers :
        /\ Done(r)
        /\ req[r].name = "find_elements"
        /\ req[r].args.label = Str(<<"s", "i", "g", "n">>)
        /\ \E i \in Described(r) : ChildOf(r, i).json = TreeLogin
        /\ ~resp[r].isError
        /\ LET found == resp[r].content[1].json[1]
           IN /\ Len(found) = 2
              /\ found[1].label = Str(SignIn)
              /\ found[2].label = Str(SIGNUP)

----------------------------------------------------------------------------
(* C5 *)

\* n is v + w/2 rounded to the nearest integer, a half rounded up.
IsRounded(n, v, w) == 2 * n - (2 * v + w) \in {0, 1}

\* C5: a tap_element whose label is contained in some label of the snapshot
\* issues exactly one tap, at the rounded centroid of the first matching
\* element in pre-order, however many others match.
C5_TapsFirstMatch ==
    \A r \in Handlers :
        \A i \in Described(r) :
            LET tree == ChildOf(r, i).json
                hits == IF req[r].args.label.t = "string"
                        THEN MatchingPaths(tree, req[r].args.label.s) ELSE {}
            IN (req[r].name = "tap_element" /\ hits # {} /\ pc[r] # "resume") =>
                  LET p == CHOOSE h \in hits : \A q \in hits \ {h} : Precedes(h, q)
                      n == NodeAt(tree, p)
                      f == IF n.hasFrame THEN n.frame ELSE ZeroFrame
                  IN /\ Cardinality(Taps(r)) = 1
                     /\ \E x \in {f.x + (f.width \div 2) + d : d \in {0, 1}},
                           y \in {f.y + (f.height \div 2) + d : d \in {0, 1}} :
                           /\ IsRounded(x, f.x, f.width)
                           /\ IsRounded(y, f.y, f.height)
                           /\ \A t \in Taps(r) :
                                 Includes(log[r][t].cmd,
                                          <<"ui", " ", "tap", " ", ToString(x), " ",
                                            ToString(y), " ">>)

\* Searching sign on the login screen tapped Sign In, which lies deeper in the
\* tree than SIGN UP but comes first in pre-order; searching UP tapped the
\* centre of a frame of odd width.
C5_Witness ==
    \E r \in Handlers :
        /\ Done(r)
        /\ req[r].name = "tap_element"
        /\ req[r].args.label = Str(<<"s", "i", "g", "n">>)
        /\ \E i \in Described(r) : ChildOf(r, i).json = TreeLogin
        /\ \E t \in Taps(r) :
              Includes(log[r][t].cmd, <<"tap", " ", "197", " ", "425">>)
        /\ ~resp[r].isError

----------------------------------------------------------------------------
(* C6 *)

\* C6 (as stated): when a command issued for a request has failed, the
\* response is flagged as an error and carries the failed process's error text.
C6_Original ==
    \A r \in Handlers :
        \A i \in Exits(r) :
            (Done(r) /\ Failed(ChildOf(r, i))) =>
                /\ resp[r].isError
                /\ Includes(TextOf(r), ChildOf(r, i).stderr)

\* C6 (amended): when a command issued for a request has failed, the response
\* is flagged as an error and its text is "Error: Command failed: " with the
\* command line and the process's error text; except, in the mouse-driven
\* variant only, that press_button for a button other than home reports
\* success whatever its simctl command did, that boot_simulator reports
\* "Simulator already booted" when the error text contains "current state:
\* Booted", and that tap and swipe report the fixed window-bounds message when
\* the window-bounds script fails.
C6_Amended ==
    \A r \in Handlers :
        \A i \in Exits(r) :
            (Done(r) /\ Failed(ChildOf(r, i))) =>
                LET c == ChildOf(r, i)
                    site == log[r][i].site
                IN IF variant = "mouse" /\ site = "button"
                   THEN resp[r] = Success(TextItem(<<"Pressed button: ">>
                                                     \o req[r].args.button.s))
                   ELSE IF /\ variant = "mouse"
                           /\ req[r].name = "boot_simulator"
                           /\ Includes(c.stderr, <<"current state: Booted">>)
                   THEN resp[r] = Success(TextItem(<<"Simulator already booted">>))
                   ELSE IF variant = "mouse" /\ site = "bounds"
                   THEN IsErrorWith(resp[r], noWindowBounds)
                   ELSE /\ IsErrorWith(resp[r], <<"Command failed: ">> \o c.cmd
                                                  \o <<"\n">> \o c.stderr)
                        /\ c.stderr # <<>>
                        /\ Includes(TextOf(r), c.stderr)

\* A tap whose idb command exited with status 1 was answered with the error.
C6_Witness ==
    \E r \in Handlers :
        /\ Done(r)
        /\ variant = "idb"
        /\ req[r].name = "tap"
        /\ \E i \in Exits(r) : log[r][i].site = "final" /\ Failed(ChildOf(r, i))
        /\ resp[r].isError

----------------------------------------------------------------------------
(* C7 *)

\* C7 (as stated): the executor raises exactly when the child exits non-zero
\* and wrote nothing to stdout; otherwise it returns the trimmed stdout.
C7_Original ==
    xpc = "called" =>
        /\ ~execResult.ok <=> (child.exit # 0 /\ child.stdout = <<>>)
        /\ execResult.ok => execResult.val = Trim(child.stdout)

\* C7 (amended): the executor raises exactly when the child exits non-zero
\* (whatever it wrote), or exits zero having written to stderr and nothing to
\* stdout; a non-zero exit raises "Command failed: <cmd>\n<stderr>", the other
\* case raises the stderr text; in every other case it returns the trimmed stdout.
C7_Amended ==
    xpc = "called" =>
        /\ ~execResult.ok <=>
             \/ child.exit # 0
             \/ (child.exit = 0 /\ child.stderr # <<>> /\ child.stdout = <<>>)
        /\ (child.exit # 0) =>
             execResult.err = <<"Command failed: ">> \o child.cmd \o <<"\n">> \o child.stderr
        /\ (~execResult.ok /\ child.exit = 0) => execResult.err = child.stderr
        /\ execResult.ok =>
             /\ execResult.val = Trim(child.stdout)
             /\ execResult.val = <<>> \/
                  (Head(execResult.val) \notin Blank
                     /\ execResult.val[Len(execResult.val)] \notin Blank)

\* A non-zero exit with output on stdout has been raised, and padded output
\* of a successful child has been trimmed.
C7_Witness ==
    /\ xpc = "called"
    /\ \/ (child.exit # 0 /\ child.stdout # <<>> /\ ~execResult.ok)
       \/ (child.exit = 0 /\ child.stdout = <<" ", "out", "\n">>
             /\ execResult = Return(<<"out">>))

----------------------------------------------------------------------------
(* C8 *)

\* Every command r issued has exited with status 0 and a silent stderr.
AllSucceeded(r) ==
    \A i \in 1..Len(log[r]) :
        i \in Exits(r) /\ ChildOf(r, i).exit = 0 /\ ChildOf(r, i).stderr = <<>>

\* C8: requests served concurrently fare as each would alone.  Alone, a
\* screenshot whose command succeeded returns the image that command
\* captured; the file a get_screen_size has captured is there for sips to
\* read until the request itself deletes it; and no request finds its file
\* missing.
C8_Original ==
    \A r \in Handlers :
        /\ (Done(r) /\ req[r].name = "screenshot" /\ AllSucceeded(r)) =>
              resp[r] = Success(ImageItem(base64(Capture(r))))
        /\ (pc[r] \in {"await", "resume"} /\ pend[r].site = "sips") =>
              loc[r].tmpFile \in DOMAIN disk
        /\ (Done(r) /\ raised[r] # <<>>) =>
              ~Includes(raised[r][1], <<"ENOENT: no such file or directory, ">>)

----------------------------------------------------------------------------
(* C9 *)

\* C9: once a screenshot or get_screen_size request has completed
\* successfully, the image file captured for it is gone from its path (a file
\* there holds what another request's command captured).
C9_FileDeleted ==
    \A r \in Handlers :
        (/\ Done(r)
         /\ req[r].name \in {"screenshot", "get_screen_size"}
         /\ ~resp[r].isError) =>
            ~(/\ loc[r].tmpFile \in DOMAIN disk
              /\ disk[loc[r].tmpFile].content = Capture(r))

\* A screenshot has completed successfully after its command had written
\* its file, and the file is gone.
C9_Witness ==
    \E r \in Handlers :
        /\ Done(r)
        /\ req[r].name = "screenshot"
        /\ ~resp[r].isError
        /\ \E i \in Exits(r) : log[r][i].site = "shot" /\ ChildOf(r, i).exit = 0
        /\ loc[r].tmpFile # <<>>
        /\ loc[r].tmpFile \notin DOMAIN disk

----------------------------------------------------------------------------
(* C10 *)

----------------------------------------------------------------------------
(* C11 *)

\* C11: every item of every response is a text or an image payload; a
\* request served without error returns exactly one item, the base64 image
\* with MIME type image/png for screenshot and a text for every other
\* operation, and does not carry the error flag.
C11_ResponseShape ==
    \A r \in Handlers :
        /\ \A k \in 1..Len(resp[r].content) : resp[r].content[k].type \in {"text", "image"}
        /\ (Done(r) /\ raised[r] = <<>>) =>
              /\ resp[r].isError = FALSE
              /\ Len(resp[r].content) = 1
              /\ IF req[r].name = "screenshot"
                 THEN /\ resp[r].content[1].type = "image"
                      /\ resp[r].content[1].mimeType = <<"image/png">>
                      /\ resp[r].content[1].data = base64(Capture(r))
                 ELSE resp[r].content[1].type = "text"

\* A screenshot has been answered with its image.
C11_Witness ==
    \E r \in Handlers :
        /\ Done(r)
        /\ raised[r] = <<>>
        /\ req[r].name = "screenshot"
        /\ resp[r].content[1].type = "image"

----------------------------------------------------------------------------
(* C12 *)

\* The external commands one operation runs when nothing fails, the listing
\* that resolves the device apart.
OwnInvocations(v, name) ==
    IF v = "idb"
    THEN CASE name = "get_screen_size" -> 3
           [] name = "tap_element" -> 2
           [] OTHER -> 1
    ELSE CASE name \in {"tap", "swipe"} -> 4
           [] name \in {"boot_simulator", "type_text", "get_screen_size"} -> 2
           [] OTHER -> 1

\* One more command, the listing, when the operation needs a device and the
\* request names none.
Invocations(v, rq) ==
    OwnInvocations(v, rq.name)
      + (IF rq.name \in NeedsUdid(v) /\ ~Truthy(rq.args.udid) THEN 1 ELSE 0)

\* The mouse variant's boot that found the device already booted.
AlreadyBooted(r) ==
    /\ variant = "mouse"
    /\ req[r].name = "boot_simulator"
    /\ TextOf(r) = <<"Simulator already booted">>

\* C12 as stated: a request issues one external command, or two, and never
\* more than two.
C12_Original ==
    \A r \in Handlers :
        /\ Len(log[r]) <= 2
        /\ (Done(r) /\ raised[r] = <<>>) => Len(log[r]) >= 1

\* C12 amended: a request issues no more commands than its operation's own
\* (three for get_screen_size and two for tap_element with idb; four for tap
\* and swipe and two for boot_simulator, type_text and get_screen_size with
\* the mouse; one otherwise) plus the listing that resolves an unnamed device,
\* and a request served without error has issued exactly that many.
C12_Amended ==
    \A r \in Handlers :
        /\ pc[r] # "idle" => Len(log[r]) <= Invocations(variant, req[r])
        /\ (Done(r) /\ raised[r] = <<>> /\ ~AlreadyBooted(r)) =>
              Len(log[r]) = Invocations(variant, req[r])
        /\ Done(r) /\ AlreadyBooted(r) => Len(log[r]) \in {1, 2}

\* get_screen_size for an unnamed device has answered after four commands.
C12_Witness ==
    \E r \in Handlers :
        /\ Done(r)
        /\ raised[r] = <<>>
        /\ variant = "idb"
        /\ req[r].name = "get_screen_size"
        /\ ~Truthy(req[r].args.udid)
        /\ Len(log[r]) = 4

----------------------------------------------------------------------------
(* C13 *)

\* The records of the answer of list_simulators.
RecordsOf(r) == resp[r].content[1].json[1]

\* The devices the listing tool reported as Booted.
BootedReported(v, c) ==
    IF v = "idb" THEN Cardinality({i \in 1..Len(c.stdout) : c.stdout[i] = "Booted"})
    ELSE LET RECURSIVE n(_)
             n(rts) == IF rts = <<>> THEN 0
                       ELSE Len(SelectSeq(Head(rts).devices, IsBooted)) + n(Tail(rts))
         IN n(c.json)

\* C13 as stated: every record list_simulators returns has the state Booted
\* or Shutdown, and at most one record is Booted when the tool reports at most
\* one booted device.
C13_Original ==
    \A r \in Handlers :
        (Done(r) /\ raised[r] = <<>> /\ req[r].name = "list_simulators") =>
            LET recs == RecordsOf(r)
            IN /\ \A i \in 1..Len(recs) : recs[i].state \in {<<"Booted">>, <<"Shutdown">>}
               /\ BootedReported(variant, ChildOf(r, 1)) <= 1 =>
                     Len(SelectSeq(recs, IsBooted)) <= 1

----------------------------------------------------------------------------
(* C14 *)

\* The button names the press_button schema and its error message publish.
PublishedButtons == {W_home, W_lock, W_siri, W_apple_pay}

\* The button commands r has issued.
ButtonPresses(r) ==
    {i \in 1..Len(log[r]) : Includes(log[r][i].cmd, <<"ui", " ", "button">>)}

\* C14 as stated: press_button accepts, whatever the case, exactly home,
\* lock, siri and apple_pay; a request for any other name issues no button
\* command and, once the device is known, fails with the invalid-button
\* message, and a request for one of the four is not refused as invalid.
C14_Original ==
    \A r \in Handlers :
        (variant = "idb" /\ req[r].name = "press_button"
           /\ req[r].args.button.t = "string") =>
            LET b == req[r].args.button.s
            IN IF ToLowerCase(b) \in PublishedButtons
               THEN raised[r] # <<InvalidButton(b)>>
               ELSE /\ ButtonPresses(r) = {}
                    /\ (Done(r) /\ Truthy(req[r].args.udid)) =>
                          IsErrorWith(resp[r], InvalidButton(b))

----------------------------------------------------------------------------
(* C15 *)

\* The key commands r has issued.
KeyPresses(r) ==
    {i \in 1..Len(log[r]) : Includes(log[r][i].cmd, <<"ui", " ", "key">>)}

\* The keycode the description of press_key gives a lower-cased key.
NamedKeycode(k) ==
    CASE k \in {W_enter, W_return} -> 40
      [] k = W_tab -> 43
      [] k \in {W_delete, W_backspace} -> 42
      [] k = W_escape -> 41
      [] k = W_space -> 44
      [] OTHER -> IF k = <<>> THEN -1 ELSE CharCode(k[1])

\* C15 as stated: for every key string press_key issues exactly one key
\* command, and its keycode is an integer: 40 for enter and return, 43 for
\* tab, 42 for delete and backspace, 41 for escape, 44 for space, and for any
\* other key the character code of the first character of the lower-cased key.
C15_Original ==
    \A r \in Handlers :
        (variant = "idb" /\ req[r].name = "press_key" /\ req[r].args.key.t = "string") =>
            LET k == ToLowerCase(req[r].args.key.s)
            IN /\ \A i \in KeyPresses(r) :
                    \E n \in 0..127 :
                        /\ log[r][i].cmd =
                             IdbLine(IDB, <<"ui", " ", "key", " ", ToString(n)>>, loc[r].udid)
                        /\ k # <<>> => n = NamedKeycode(k)
               /\ (Done(r) /\ raised[r] = <<>>) => Cardinality(KeyPresses(r)) = 1

----------------------------------------------------------------------------
(* C16 *)

\* The swipe commands r has issued.
Swipes(r) ==
    {i \in 1..Len(log[r]) : Includes(log[r][i].cmd, <<"ui", " ", "swipe">>)}

\* The duration, in milliseconds, the swipe tool's schema gives a request.
DocumentedDuration(a) == IF a.duration.t = "number" THEN a.duration.n ELSE 300

\* C16 as stated: every swipe command carries a duration, the requested
\* milliseconds divided by 1000, or the default of 300 ms when the request
\* gives none.
C16_Original ==
    \A r \in Handlers :
        (variant = "idb" /\ req[r].name = "swipe") =>
            \A i \in Swipes(r) :
                Includes(log[r][i].cmd,
                         <<"--duration", " ">> \o Millis(DocumentedDuration(req[r].args))
                           \o <<" ">>)

----------------------------------------------------------------------------
(* C17 *)

\* The cliclick click commands r has issued.
Clicks(r) == {i \in 1..Len(log[r]) : StartsWith(log[r][i].cmd, <<"cliclick", " ", "c:">>)}

\* The screen size getSimulatorScreenSize read from the sips output of r.
SipsOf(r) == CHOOSE i \in Exits(r) : log[r][i].site = "sips"
ScreenWidthOf(r) == MatchInt(ChildOf(r, SipsOf(r)).stdout, "pixelWidth: ", 390)
ScreenHeightOf(r) == MatchInt(ChildOf(r, SipsOf(r)).stdout, "pixelHeight: ", 844)

\* X is the value at v of the linear map that takes 0 to `from` and `size`
\* to `to`, rounded to a nearest integer.
LinearWithinRounding(X, v, size, from, to) ==
    LET exact2 == 2 * (from * size + v * (to - from))
    IN /\ 2 * size * X - exact2 <= size
       /\ exact2 - 2 * size * X <= size

\* C17: in the mouse-driven variant a tap at a point of the device screen is
\* clicked at the point the linear map gives, within rounding, where the map
\* takes (0, 0) to the window origin moved down by the 28 pixel title bar and
\* (screen width, screen height) to (origin.x + window width, origin.y + window
\* height); these two corners are hit exactly.
C17_LinearMapping ==
    \A r \in Handlers :
        (variant = "mouse" /\ req[r].name = "tap" /\ req[r].args.x.t = "number"
           /\ req[r].args.y.t = "number" /\ loc[r].bounds.finite) =>
            \A i \in Clicks(r) :
                LET b == loc[r].bounds
                    sw == ScreenWidthOf(r)
                    sh == ScreenHeightOf(r)
                    x == req[r].args.x.n
                    y == req[r].args.y.n
                    cmd == log[r][i].cmd
                IN /\ Len(cmd) = 6
                   /\ cmd[5] = ","
                   /\ \E X \in (b.x - 1)..(b.x + 3 * b.width + 1) :
                        /\ cmd[4] = ToString(X)
                        /\ LinearWithinRounding(X, x, sw, b.x, b.x + b.width)
                        /\ x = 0 => X = b.x
                        /\ x = sw => X = b.x + b.width
                   /\ \E Y \in (b.y - 1)..(b.y + 3 * b.height + 1) :
                        /\ cmd[6] = ToString(Y)
                        /\ LinearWithinRounding(Y, y, sh, b.y + 28, b.y + b.height)
                        /\ y = 0 => Y = b.y + 28
                        /\ y = sh => Y = b.y + b.height

\* A tap at the bottom right corner of the screen has been clicked at the
\* bottom right corner of the window.
C17_Witness ==
    \E r \in Handlers :
        /\ variant = "mouse"
        /\ req[r].name = "tap"
        /\ Clicks(r) # {}
        /\ loc[r].bounds.finite
        /\ req[r].args.x = Num(ScreenWidthOf(r))
        /\ req[r].args.y = Num(ScreenHeightOf(r))
        /\ log[r][Len(log[r])].cmd = <<"cliclick", " ", "c:", "500", ",", "878">>

----------------------------------------------------------------------------
(* C18 *)

\* The Booted records of the listing r asked for first.
BootedListed(r) == SelectSeq(Listed(variant, ChildOf(r, 1)), IsBooted)

\* r is a tap at numbers for an unnamed device, served without error after a
\* listing that reports exactly one booted device.
TapScenario(r) ==
    /\ req[r].name = "tap"
    /\ ~Truthy(req[r].args.udid)
    /\ req[r].args.x.t = "number"
    /\ req[r].args.y.t = "number"
    /\ Done(r)
    /\ raised[r] = <<>>
    /\ Len(BootedListed(r)) = 1

\* C18: a tap at (x, y) that names no device, served while exactly one device
\* is booted, runs against that device, issues exactly one tap command, at
\* (x, y) with idb and at the point of the window that (x, y) scales to with
\* the mouse (the window bounds being numbers), and answers with a confirmation
\* that holds the input coordinates and the coordinates tapped.
C18_TapScenario ==
    \A r \in Handlers :
        TapScenario(r) =>
            LET u == BootedListed(r)[1].udid
                x == req[r].args.x
                y == req[r].args.y
                input == Interp(x) \o <<", ">> \o Interp(y) \o <<")">>
                last == log[r][Len(log[r])].cmd
            IN /\ loc[r].udid = u
               /\ log[r][1].cmd = ListingLine(variant)
               /\ IF variant = "idb"
                  THEN /\ Cardinality(Taps(r)) = 1
                       /\ last = IdbLine(IDB, <<"ui", " ", "tap", " ">> \o Interp(x)
                                                \o <<" ">> \o Interp(y), u)
                       /\ TextOf(r) = <<"Tapped at (">> \o input
                  ELSE /\ Cardinality(Clicks(r)) = 1
                       /\ Includes(log[r][3].cmd, u)
                       /\ loc[r].bounds.finite =>
                            LET b == loc[r].bounds
                            IN /\ Len(last) = 6
                               /\ \E X \in (b.x - 1)..(b.x + 3 * b.width + 1) :
                                    /\ last[4] = ToString(X)
                                    /\ LinearWithinRounding(X, x.n, ScreenWidthOf(r),
                                                            b.x, b.x + b.width)
                               /\ \E Y \in (b.y - 1)..(b.y + 3 * b.height + 1) :
                                    /\ last[6] = ToString(Y)
                                    /\ LinearWithinRounding(Y, y.n, ScreenHeightOf(r),
                                                            b.y + 28, b.y + b.height)
                               /\ TextOf(r) = <<"Tapped at ", "(">> \o input
                                     \o <<" -> screen (", last[4], ", ", last[6], ")">>

\* The tap at (200, 400) of the scenario has been answered by the mouse-driven
\* variant after a click inside the window.
C18_Witness ==
    \E r \in Handlers :
        /\ TapScenario(r)
        /\ variant = "mouse"
        /\ req[r].args.x = Num(200)
        /\ req[r].args.y = Num(400)
        /\ loc[r].bounds.finite
        /\ ScreenWidthOf(r) = 1170
        /\ Clicks(r) # {}

----------------------------------------------------------------------------
(* C19 *)

\* What the external tools gave r: exit status and output of each command it
\* issued, in order.
OutputsOf(r) ==
    [i \in 1..Len(log[r]) |->
        [exit |-> ChildOf(r, i).exit, stdout |-> ChildOf(r, i).stdout,
         stderr |-> ChildOf(r, i).stderr, json |-> ChildOf(r, i).json]]

\* The handler run again from `step`, in a process that has served nothing,
\* with an empty /tmp and the clock at t, against the outputs outs[i..].
RECURSIVE ReplayFrom(_, _, _, _, _, _, _, _)
ReplayFrom(v, rq, r, outs, i, step, fs, t) ==
    IF step.k # "await" \/ i > Len(outs) THEN step
    ELSE LET c == [cmd |-> step.cmd, exit |-> outs[i].exit, stdout |-> outs[i].stdout,
                   stderr |-> outs[i].stderr, json |-> outs[i].json]
             written == IF Writes(step.site, c)
                        THEN With(fs, step.loc.tmpFile, [content |-> Capture(r)])
                        ELSE fs
             next == IF v = "idb"
                     THEN ResumeIdb(IDB, rq, step.loc, step.site, c, written, t)
                     ELSE ResumeMouse(rq, step.loc, step.site, c, written, t)
         IN ReplayFrom(v, rq, r, outs, i + 1, next,
                       IF next.rm # <<>> THEN Without(written, next.rm) ELSE written, t)

\* The response of that fresh run.
Replay(r, t) ==
    LET first == IF variant = "idb" THEN StartIdb(IDB, req[r], t)
                 ELSE StartMouse(req[r], t)
        last == ReplayFrom(variant, req[r], r, OutputsOf(r), 1, first, <<>>, t)
    IN CASE last.k = "finish" -> last.resp
         [] last.k = "fail" -> CatchResponse(last.err)
         [] OTHER -> NoResponse

----------------------------------------------------------------------------
(* C20 *)

\* The operation names the server publishes.
Published(v) == IF v = "idb" THEN tools ELSE toolsMouse

UnknownTool(name) == <<"Unknown tool: ", name>>

\* C20: the names published in the capability table are the names the
\* dispatcher routes: a request is answered `Unknown tool` exactly when its
\* name is not in the table, and a request for a published name has reached
\* its operation: it has issued a command or failed on its arguments.
C20_TableIsRouted ==
    \A r \in Handlers :
        pc[r] # "idle" =>
            /\ Done(r) =>
                 (req[r].name \in Published(variant)
                    <=> raised[r] # <<UnknownTool(req[r].name)>>)
            /\ req[r].name \in Published(variant) => (log[r] # <<>> \/ raised[r] # <<>>)
            /\ req[r].name \notin Published(variant) => log[r] = <<>>

\* The last entry of the table has been served.
C20_Witness ==
    \E r \in Handlers :
        /\ Done(r)
        /\ variant = "idb"
        /\ req[r].name = "tap_element"
        /\ raised[r] = <<>>

----------------------------------------------------------------------------
(* C21 *)

\* The capture command of r has exited with status 0: its file was created.
Created(r) ==
    \E i \in Exits(r) : log[r][i].site \in {"shot", "size_shot"} /\ ChildOf(r, i).exit = 0

\* r has failed with its file created and its deletion step not reached: the
\* failure is that of the capture command, of the read or of the sips command.
FailedBeforeDeletion(r) ==
    /\ Done(r)
    /\ raised[r] # <<>>
    /\ Created(r)
    /\ log[r][Len(log[r])].site \in {"shot", "size_shot", "sips"}

\* The file f leaves the disk in this step through the unlink of a handler
\* that named it and goes on without an error.
UnlinkedOnSuccessPath(f) ==
    \E r \in Handlers :
        /\ pc[r] = "resume"
        /\ loc[r].tmpFile = f
        /\ pend[r].site \in {"shot", "sips"}
        /\ raised'[r] = <<>>

LeakedFileStays ==
    \A r \in Handlers : FailedBeforeDeletion(r) => loc[r].tmpFile \in DOMAIN disk

\* C21 as stated: the temporary image file is deleted on the success path only: when a
\* request has failed after its capture command created the file and before
\* the deletion step, the file is still there once the error response is
\* ready, and a file leaves the disk only through the unlink of a request
\* that goes on without error.
C21_Original ==
    /\ []LeakedFileStays
    /\ [][\A f \in DOMAIN disk : f \notin DOMAIN disk' => UnlinkedOnSuccessPath(f)]_vars

----------------------------------------------------------------------------
(* C22 *)

\* Every child process r waits for exits: r is never left awaiting for ever.
ChildrenExit(r) == []<>(pc[r] # "await")

\* r leaves an await only because its child has exited, and leaves "done"
\* only by the delivery of its one response.
NoTimeout(r) ==
    /\ pc[r] = "await" /\ pc'[r] # "await" =>
          /\ pc'[r] = "resume"
          /\ proc'[r] \in Children(variant, pend[r].site, pend[r].cmd,
                                   loc[r].tmpFile \in DOMAIN disk)
    /\ pc[r] = "done" /\ pc'[r] # "done" =>
          /\ pc'[r] = "idle"
          /\ resp[r] # NoResponse
    /\ pc[r] # "done" /\ pc'[r] = "done" => pc[r] \in {"idle", "resume"}

\* C22: a request whose child processes all exit is answered, once, whatever
\* the other requests do; a request is taken off its await by the exit of its
\* child alone, so one whose child never exits is never answered.
C22_AnsweredIfChildrenExit ==
    /\ \A r \in Handlers :
          ChildrenExit(r) =>
              /\ (pc[r] # "idle") ~> Done(r)
              /\ Done(r) ~> (pc[r] = "idle")
    /\ [][\A r \in Handlers : NoTimeout(r)]_vars

\* boot_simulator has been answered while the other request still waits for
\* its child.
C22_Witness ==
    \E r, q \in Handlers :
        /\ Done(r)
        /\ req[r].name = "boot_simulator"
        /\ Exits(r) # {}
        /\ pc[q] = "await"

----------------------------------------------------------------------------
(* C23 *)

\* The commands r has issued.
Issued(r) == [i \in 1..Len(log[r]) |-> log[r][i].cmd]

\* r issued no command after one of its children had failed.
StopsAtFailure(r) ==
    \A i \in Exits(r) : Failed(ChildOf(r, i)) => i = Len(log[r])

\* r issued no command twice.
NothingReissued(r) ==
    \A i, j \in 1..Len(log[r]) : Issued(r)[i] = Issued(r)[j] => i = j

\* A child of r has failed.
SomeFailure(r) == \E i \in Exits(r) : Failed(ChildOf(r, i))

\* C23 as stated: when an external invocation of a request fails, the request
\* issues no further invocation and ends with an error response, and no
\* command is issued twice for one request.
C23_Original ==
    \A r \in Handlers :
        /\ StopsAtFailure(r)
        /\ NothingReissued(r)
        /\ (Done(r) /\ SomeFailure(r)) => resp[r].isError

\* The two failures the mouse-driven variant answers without the error flag:
\* a boot that failed because the device is already booted, and a failed
\* simctl button command.
Forgiven(r) ==
    /\ variant = "mouse"
    /\ \/ /\ req[r].name = "boot_simulator"
          /\ TextOf(r) = <<"Simulator already booted">>
          /\ \E i \in Exits(r) : /\ Failed(ChildOf(r, i))
                                 /\ Includes(ChildOf(r, i).stderr, <<"current state: Booted">>)
       \/ /\ req[r].name = "press_button"
          /\ log[r][Len(log[r])].site = "button"
          /\ TextOf(r) = <<"Pressed button: ">> \o req[r].args.button.s

\* C23, amended: a request issues no invocation after one of its invocations
\* has failed and issues no command twice; after a failure it ends with an
\* error response, except that the mouse-driven variant answers "Simulator
\* already booted" to a boot that failed in state Booted and "Pressed button"
\* to a failed simctl button command.
C23_Amended ==
    \A r \in Handlers :
        /\ StopsAtFailure(r)
        /\ NothingReissued(r)
        /\ (Done(r) /\ SomeFailure(r)) => (resp[r].isError \/ Forgiven(r))

\* A request answered with the error flag after its second command failed.
C23_Witness ==
    \E r \in Handlers :
        /\ Done(r)
        /\ Len(log[r]) >= 2
        /\ Failed(ChildOf(r, Len(log[r])))
        /\ resp[r].isError

----------------------------------------------------------------------------
(* C24 *)

\* The window-bounds queries of r whose script failed.
BoundsFailures(r) ==
    {i \in Exits(r) : log[r][i].site = "bounds" /\ Failed(ChildOf(r, i))}

\* The sites of the screenshot and of the pointer click of tap and swipe.
ShotOrClick == {"size_shot", "sips", "final"}

\* C24: in the mouse-driven variant a tap or swipe whose window-bounds script
\* fails issues nothing after that script: no second bounds query, no
\* screenshot, no pointer click; and it ends with the error response "Could
\* not get Simulator window bounds. Is Simulator running?".
C24_BoundsFailure ==
    \A r \in Handlers :
        (variant = "mouse" /\ req[r].name \in {"tap", "swipe"} /\ BoundsFailures(r) # {}) =>
            /\ BoundsFailures(r) = {Len(log[r])}
            /\ \A i \in 1..Len(log[r]) :
                   /\ log[r][i].site \notin ShotOrClick
                   /\ log[r][i].site = "bounds" => i = Len(log[r])
            /\ pc[r] \in {"resume", "done"}
            /\ Done(r) =>
                   resp[r] = [content |-> <<TextItem(<<"Error: ",
                                  "Could not get Simulator window bounds. Is Simulator running?">>)>>,
                              isError |-> TRUE]

\* A swipe answered with the window-bounds error.
C24_Witness ==
    \E r \in Handlers :
        /\ variant = "mouse" /\ req[r].name = "swipe"
        /\ BoundsFailures(r) # {}
        /\ Done(r) /\ resp[r].isError

----------------------------------------------------------------------------
(* C25 *)

\* The element types describe_screen keeps whatever the label.
InterestingTypes ==
    {<<"Button">>, <<"TextField">>, <<"StaticText">>, <<"Image">>, <<"Switch">>,
     <<"Slider">>, <<"Application">>}

\* The positions of the printed tree whose node has a non-empty label or one
\* of the types above.
KeptPaths(tree) ==
    {p \in PathsOf(tree) :
        LET n == NodeAt(tree, p)
        IN \/ n.AXLabel.t = "string" /\ n.AXLabel.s # <<>>
           \/ parseElement(n).type \in InterestingTypes}

\* The place of a kept position among the kept positions, in pre-order.
RankOf(tree, p) == 1 + Cardinality({q \in KeptPaths(tree) : Precedes(q, p)})

\* C25: describe_screen returns, for the tree the tool printed, one record
\* per node that has a non-empty label or one of the seven types, in
\* pre-order; a node below a dropped node is returned all the same; and a
\* returned record has the members type, label, value, frame and enabled and
\* no children member.
C25_PreOrderFlattening ==
    \A r \in Handlers :
        \A i \in Described(r) :
            (req[r].name = "describe_screen" /\ Done(r)) =>
                LET tree == ChildOf(r, i).json
                    found == resp[r].content[1].json[1]
                IN /\ ~resp[r].isError
                   /\ Len(found) = Cardinality(KeptPaths(tree))
                   /\ \A p \in KeptPaths(tree) :
                          LET e == parseElement(NodeAt(tree, p))
                          IN found[RankOf(tree, p)] =
                                 [type |-> e.type, label |-> e.label, value |-> e.value,
                                  frame |-> e.frame, enabled |-> e.enabled]
                   /\ \A k \in 1..Len(found) : "children" \notin DOMAIN found[k]

\* The login screen described: the unlabelled container is dropped and the
\* button inside it is returned second, before its later siblings.
C25_Witness ==
    \E r \in Handlers :
        /\ Done(r) /\ req[r].name = "describe_screen"
        /\ \E i \in Described(r) : ChildOf(r, i).json = TreeLogin
        /\ ~resp[r].isError
        /\ LET found == resp[r].content[1].json[1]
           IN /\ Len(found) = 4
              /\ found[1].type = <<"Application">>
              /\ found[2].label = Str(SignIn)
              /\ found[3].label = Str(SIGNUP)

----------------------------------------------------------------------------
(* C26 *)

\* The accessibility snapshot r's get_screen_size read.
SizeSnapshot(r) == CHOOSE i \in Exits(r) : log[r][i].site = "size_describe"

\* The Application records of the snapshot the child at i printed.
ApplicationsOf(r, i) ==
    SelectSeq(Flattened(r, i), LAMBDA e : e.type = <<"Application">>)

\* n is a / b rounded to the nearest integer, for b > 0.
IsRoundedQuotient(n, a, b) == 2 * b * n - b <= 2 * a /\ 2 * a < 2 * b * n + b

\* C26 as stated: the scale of every get_screen_size result is a finite
\* integer of at least 1, the pixel width over the point width rounded; the
\* points are the frame size of the snapshot's Application element when there
\* is one, else the pixel dimensions over 3, rounded.
C26_Original ==
    \A r \in Handlers :
        (/\ variant = "idb" /\ req[r].name = "get_screen_size"
         /\ Done(r) /\ ~resp[r].isError) =>
            LET size == resp[r].content[1].json[1]
                apps == ApplicationsOf(r, SizeSnapshot(r))
            IN /\ size.scale.t = "number"
               /\ size.scale.n >= 1
               /\ size.points.width > 0
               /\ IsRoundedQuotient(size.scale.n, size.pixels.width, size.points.width)
               /\ IF apps # <<>>
                  THEN /\ size.points.width = apps[1].frame.width
                       /\ size.points.height = apps[1].frame.height
                  ELSE /\ IsRoundedQuotient(size.points.width, size.pixels.width, 3)
                       /\ IsRoundedQuotient(size.points.height, size.pixels.height, 3)

----------------------------------------------------------------------------
(* C27 *)

\* C27: a request whose name is not in the published table is answered at
\* once with the single text item "Error: Unknown tool: <name>" and the error
\* flag, and no external command is issued for it, the device listing
\* included.
C27_UnknownToolRejected ==
    \A r \in Handlers :
        (pc[r] # "idle" /\ req[r].name \notin Published(variant)) =>
            /\ Done(r)
            /\ log[r] = <<>>
            /\ resp[r] = [content |-> <<TextItem(<<"Error: ", "Unknown tool: ",
                                                   req[r].name>>)>>,
                          isError |-> TRUE]

\* A request for a name that neither table holds, sent without a device id,
\* has been answered.
C27_Witness ==
    \E r \in Handlers :
        /\ Done(r)
        /\ req[r].name = "no_such_tool"
        /\ ~Truthy(req[r].args.udid)
        /\ resp[r].isError

----------------------------------------------------------------------------
(* The shell.  exec hands the command line to /bin/sh -c, which splits it    *)
(* into commands and words before any program runs.                        *)

ShellOperators == {"&", ";", "|"}

\* The word under construction is closed and joins the words of the command.
EndWord(words, cur, has) == IF has THEN Append(words, cur) ELSE words

\* The command under construction is closed and joins the commands.
EndCommand(cmds, words) == IF words = <<>> THEN cmds ELSE Append(cmds, words)

\* What `$` followed by a name becomes: the value of a variable of the shell.
Expansion == "<expansion>"

\* sh's reading of a command line, an atom at a time.  Outside quotes a blank
\* ends a word, an operator ends a command, a backslash takes the next atom
\* literally and `$name` is expanded; between single quotes every atom is
\* literal; between double quotes a backslash escapes `"`, `\` and `$` only,
\* and `$name` is still expanded.
RECURSIVE ShellFrom(_, _, _, _, _, _)
ShellFrom(s, mode, cur, has, words, cmds) ==
    IF s = <<>>
    THEN [commands |-> EndCommand(cmds, EndWord(words, cur, has)),
          closed |-> mode = "plain"]
    ELSE LET a == Head(s)
             rest == Tail(s)
             expands == a = "$" /\ rest # <<>> /\ Head(rest) \notin Blank \cup {"'", "\""}
         IN CASE mode = "single" ->
                   IF a = "'" THEN ShellFrom(rest, "plain", cur, TRUE, words, cmds)
                   ELSE ShellFrom(rest, mode, Append(cur, a), TRUE, words, cmds)
              [] mode = "double" ->
                   IF a = "\"" THEN ShellFrom(rest, "plain", cur, TRUE, words, cmds)
                   ELSE IF a = "\\" /\ rest # <<>> /\ Head(rest) \in {"\"", "\\", "$"}
                   THEN ShellFrom(Tail(rest), mode, Append(cur, Head(rest)), TRUE, words, cmds)
                   ELSE IF expands
                   THEN ShellFrom(Tail(rest), mode, Append(cur, Expansion), TRUE, words, cmds)
                   ELSE ShellFrom(rest, mode, Append(cur, a), TRUE, words, cmds)
              [] OTHER ->
                   IF a \in Blank
                   THEN ShellFrom(rest, mode, <<>>, FALSE, EndWord(words, cur, has), cmds)
                   ELSE IF a \in ShellOperators
                   THEN ShellFrom(rest, mode, <<>>, FALSE, <<>>,
                                  EndCommand(cmds, EndWord(words, cur, has)))
                   ELSE IF a = "'" THEN ShellFrom(rest, "single", cur, TRUE, words, cmds)
                   ELSE IF a = "\"" THEN ShellFrom(rest, "double", cur, TRUE, words, cmds)
                   ELSE IF a = "\\" /\ rest # <<>>
                   THEN ShellFrom(Tail(rest), mode, Append(cur, Head(rest)), TRUE, words, cmds)
                   ELSE IF expands
                   THEN ShellFrom(Tail(rest), mode, Append(cur, Expansion), TRUE, words, cmds)
                   ELSE ShellFrom(rest, mode, Append(cur, a), TRUE, words, cmds)

\* The commands sh runs for a command line, each the list of its words, and
\* whether every quote of the line was closed.
Shell(cmd) == ShellFrom(cmd, "plain", <<>>, FALSE, <<>>, <<>>)

----------------------------------------------------------------------------
(* C28 *)

\* The open commands of r.
Opens(r) == {i \in 1..Len(log[r]) : req[r].name = "open_url" /\ log[r][i].site = "final"}

\* The words of the device flag: the id is a word unless it is empty.
UdidWords(udid) == <<<<"--udid">>>> \o (IF udid = <<>> THEN <<>> ELSE <<udid>>)

\* C28 as stated: for every URL string, the command line open_url builds is
\* read by the shell as one command whose words are the tool, open, the URL
\* unchanged as one word, and then the --udid flag with the device id.
C28_Original ==
    \A r \in Handlers :
        \A i \in Opens(r) :
            (variant = "idb" /\ req[r].args.url.t = "string") =>
                Shell(log[r][i].cmd) =
                    [commands |-> << <<IDB, <<"open">>, req[r].args.url.s>>
                                       \o UdidWords(loc[r].udid) >>,
                     closed |-> TRUE]

----------------------------------------------------------------------------
(* C29 *)

\* The command of r that carries the text: idb's ui text, the mouse variant's
\* echo into pbcopy.
TextCommands(r) ==
    {i \in 1..Len(log[r]) :
        /\ req[r].name = "type_text"
        /\ log[r][i].site = IF variant = "idb" THEN "final" ELSE "pbcopy"}

\* What the shell is to run for the text: the tool with the text as one word.
TextRun(r) ==
    IF variant = "idb"
    THEN << <<IDB, <<"ui">>, <<"text">>, req[r].args.text.s>> \o UdidWords(loc[r].udid) >>
    ELSE << <<<<"echo">>, <<"-n">>, req[r].args.text.s>>, <<<<"pbcopy">>>> >>

\* C29 as stated: for every text, the quoted argument of the command line
\* type_text builds is, once the shell has removed the quoting, the text atom
\* for atom, and the confirmation is "Typed: " followed by the text as given.
C29_Original ==
    \A r \in Handlers :
        \A i \in TextCommands(r) :
            req[r].args.text.t = "string" =>
                /\ Shell(log[r][i].cmd) = [commands |-> TextRun(r), closed |-> TRUE]
                /\ (Done(r) /\ ~resp[r].isError) =>
                       TextOf(r) = <<"Typed: ">> \o req[r].args.text.s

----------------------------------------------------------------------------
(* C30 *)

\* The operations that take a device id as a parameter.
TakesUdid(v) ==
    IF v = "idb" THEN tools \ {"list_simulators"}
    ELSE toolsMouse \ {"list_simulators", "type_text", "press_key"}

\* The command names a device: idb's --udid flag, a simctl subcommand.
NamesDevice(v, cmd) ==
    IF v = "idb" THEN Includes(cmd, <<"--udid", " ">>)
    ELSE Includes(cmd, <<"xcrun", " ", "simctl", " ">>)

\* The command names the device `id`.
NamesThis(v, cmd, id) ==
    IF v = "idb" THEN Includes(cmd, <<"--udid", " ">> \o id)
    ELSE Includes(cmd, <<" ">> \o id)

\* C30: a request that gives a non-empty device id never asks for the device
\* listing, and every command of it that names a device names the id as
\* given; a request for an operation that resolves its device and gives the
\* empty string as id asks for the listing first, as one that gives none.
C30_GivenIdUsedUnchanged ==
    \A r \in Handlers :
        /\ (req[r].name \in TakesUdid(variant) /\ Truthy(req[r].args.udid)) =>
               \A i \in 1..Len(log[r]) :
                   /\ log[r][i].cmd # ListingLine(variant)
                   /\ log[r][i].site # "getUdid"
                   /\ NamesDevice(variant, log[r][i].cmd) =>
                          NamesThis(variant, log[r][i].cmd, req[r].args.udid.s)
        /\ (/\ req[r].name \in NeedsUdid(variant)
            /\ req[r].args.udid \in {Str(<<>>), Undefined}
            /\ log[r] # <<>>) =>
               /\ log[r][1].cmd = ListingLine(variant)
               /\ log[r][1].site = "getUdid"

\* A tap on U9 was served with one command, which names U9; no listing.
C30_Witness ==
    \E r \in Handlers :
        /\ variant = "idb"
        /\ Done(r) /\ ~resp[r].isError
        /\ req[r].name = "tap"
        /\ req[r].args.udid = Str(<<"U9">>)
        /\ Len(log[r]) = 1
        /\ Includes(log[r][1].cmd, <<"--udid", " ", "U9">>)

====
